---- MODULE Spec2Model ----
(***************************************************************************)
(* Orchestration model of src/main.py: the lesson-plan pipeline built in   *)
(* main(), the content pipeline built in content_generator(), the tools    *)
(* the agents may call, and the approval round trip driven by main() and   *)
(* ai_executor().                                                          *)
(*                                                                         *)
(* src/main.py builds its pipelines from SequentialAgent, LoopAgent and    *)
(* Runner, whose code is not part of src/.  Their behaviour is modelled    *)
(* from sections 4.2 - 4.4 of the specification (the operators Enter,      *)
(* Complete, Resume and the engine part of the step actions).  What an     *)
(* agent's language model answers is a nondeterministic choice among a     *)
(* text answer and one call of a tool the agent declares.                  *)
(***************************************************************************)
EXTENDS Integers, Sequences, FiniteSets, TLC

(***************************************************************************)
(* Bounds of the model.                                                    *)
(***************************************************************************)
\* largest max_iterations tried for the parametric loop
MaxIterationsBound == 3
\* confirmation requests one run may issue before the agent stops asking
MaxRounds == 2
\* longest list of events given to the extractions
MaxTranscriptLen == 2

NONE == "none"

(***************************************************************************)
(* Strings are sequences of one-character strings, so that strip(),        *)
(* lower() and the JSON round trip are computed and not assumed.           *)
(***************************************************************************)
IsSpace(c) == c \in {" ", "\n", "\t"}

RECURSIVE LStrip(_)
LStrip(s) == IF s # <<>> /\ IsSpace(Head(s)) THEN LStrip(Tail(s)) ELSE s

RECURSIVE RStrip(_)
RStrip(s) ==
    IF s # <<>> /\ IsSpace(s[Len(s)]) THEN RStrip(SubSeq(s, 1, Len(s) - 1)) ELSE s

\* str.strip()
Strip(s) == RStrip(LStrip(s))

Range(seq) == {seq[i] : i \in 1..Len(seq)}

Front(seq) == SubSeq(seq, 1, Len(seq) - 1)

UpperCase ==
    <<"A", "B", "C", "D", "E", "F", "G", "H", "I", "J", "K", "L", "M", "N", "O", "P", "Q",
      "R", "S", "T", "U", "V", "W", "X", "Y", "Z">>

LowerCase ==
    <<"a", "b", "c", "d", "e", "f", "g", "h", "i", "j", "k", "l", "m", "n", "o", "p", "q",
      "r", "s", "t", "u", "v", "w", "x", "y", "z">>

\* str.lower() of one character
LowerChar(c) ==
    IF \E i \in 1..Len(UpperCase) : UpperCase[i] = c
    THEN LowerCase[CHOOSE i \in 1..Len(UpperCase) : UpperCase[i] = c]
    ELSE c

\* str.lower()
Lower(s) == [i \in 1..Len(s) |-> LowerChar(s[i])]

(***************************************************************************)
(* The composite trees.                                                    *)
(***************************************************************************)
content_refinement_loop ==
    [kind |-> "loop",
     sub_agents |-> <<"content_reviewer_agent", "content_refiner_agent">>,
     max_iterations |-> 5]

ContentPlanPipeline_loop_first ==
    [kind |-> "sequential",
     sub_agents |-> <<"ContentRefinementLoop", "content_generator_agent">>,
     max_iterations |-> 0]

ContentPlanPipeline ==
    [kind |-> "sequential",
     sub_agents |-> <<"content_generator_agent", "ContentRefinementLoop">>,
     max_iterations |-> 0]

lesson_plan_refinement_loop ==
    [kind |-> "loop",
     sub_agents |-> <<"lesson_plan_reviewer_agent", "lesson_plan_refiner_agent">>,
     max_iterations |-> 1]

human_feedback_loop_feedback_first ==
    [kind |-> "loop",
     sub_agents |-> <<"human_feedback_agent", "LessonRefinementLoop">>,
     max_iterations |-> 5]

human_feedback_loop_six ==
    [kind |-> "loop",
     sub_agents |-> <<"LessonRefinementLoop", "human_feedback_agent">>,
     max_iterations |-> 6]

human_feedback_loop ==
    [kind |-> "loop",
     sub_agents |-> <<"LessonRefinementLoop", "human_feedback_agent">>,
     max_iterations |-> 5]

LessonPlanPipeline ==
    [kind |-> "sequential",
     sub_agents |-> <<"lesson_plan_generator_agent", "HumanFeedbackLoop">>,
     max_iterations |-> 0]

\* a loop of two steps whose cap and whose steps' tools are inputs
ParametricLoop(n) ==
    [kind |-> "loop",
     sub_agents |-> <<"first_step", "second_step">>,
     max_iterations |-> n]

Loops == {"ContentRefinementLoop", "LessonRefinementLoop", "HumanFeedbackLoop",
          "ParametricLoop"}

Composites == Loops \cup {"ContentPlanPipeline", "LessonPlanPipeline"}

LeafAgents ==
    {"content_generator_agent", "content_reviewer_agent", "content_refiner_agent",
     "lesson_plan_generator_agent", "lesson_plan_reviewer_agent",
     "lesson_plan_refiner_agent", "human_feedback_agent",
     "first_step", "second_step"}

ToolNames == {"exit_loop", "exit_inner_loop", "human_feedback_input"}

\* the tools= argument of each Agent(...)
AgentTools(agent, cfgTools) ==
    CASE agent = "content_refiner_agent"     -> {"exit_loop"}
      [] agent = "lesson_plan_refiner_agent" -> {"exit_inner_loop"}
      [] agent = "human_feedback_agent"      -> {"exit_loop", "human_feedback_input"}
      [] agent = "first_step"                -> cfgTools[1]
      [] agent = "second_step"               -> cfgTools[2]
      [] OTHER                               -> {}

(***************************************************************************)
(* The tools.                                                              *)
(***************************************************************************)
\* what exit_loop does to tool_context.actions.escalate, and what it returns
exit_loop_keeps_flag == [escalate |-> FALSE, status |-> "approved"]

exit_loop == [escalate |-> TRUE, status |-> "approved"]

exit_inner_loop_escalates == [escalate |-> TRUE, status |-> "approved"]

exit_inner_loop == [escalate |-> FALSE, status |-> "approved"]


(***************************************************************************)
(* JSON text of the resume message: json.dumps({"human_input": s}) and     *)
(* json.loads restricted to the texts a resume message can carry.          *)
(***************************************************************************)
Quote == "\""
Backslash == "\\"

JsonPrefix ==
    <<"{", Quote, "h", "u", "m", "a", "n", "_", "i", "n", "p", "u", "t", Quote,
      ":", " ", Quote>>

JsonSuffix == <<Quote, "}">>

\* the pieces of a list of texts joined, halves first so that long texts
\* need no deep recursion
RECURSIVE Concat(_, _, _)
Concat(pieces, lo, hi) ==
    IF lo > hi THEN <<>>
    ELSE IF lo = hi THEN pieces[lo]
    ELSE LET mid == (lo + hi) \div 2
         IN Concat(pieces, lo, mid) \o Concat(pieces, mid + 1, hi)

\* the body of the string literal json.dumps writes for s
JsonEscape(s) ==
    Concat([i \in 1..Len(s) |->
               IF s[i] = Quote \/ s[i] = Backslash THEN <<Backslash, s[i]>> ELSE <<s[i]>>],
           1, Len(s))

\* what JsonUnescape yields for text that is no JSON string literal
Invalid == <<"invalid">>

\* the number of backslashes that stand in a row just before s[k], from s[i] on
BackslashesBefore(s, i, k) ==
    IF k <= i \/ s[k - 1] # Backslash THEN 0
    ELSE IF \A j \in i..(k - 1) : s[j] = Backslash THEN k - i
    ELSE k - 1 - (CHOOSE j \in i..(k - 1) :
                     s[j] # Backslash /\ \A m \in (j + 1)..(k - 1) : s[m] = Backslash)

\* the body of a JSON string literal decoded
JsonUnescape(s) ==
    LET n == Len(s)
        escaped(k) == BackslashesBefore(s, 1, k) % 2 = 1
        bad(k) ==
            IF escaped(k) THEN ~(s[k] = Quote \/ s[k] = Backslash)
            ELSE s[k] = Quote \/ (s[k] = Backslash /\ k = n)
        piece(k) == IF ~escaped(k) /\ s[k] = Backslash THEN <<>> ELSE <<s[k]>>
    IN IF \E k \in 1..n : bad(k) THEN Invalid
       ELSE Concat([k \in 1..n |-> piece(k)], 1, n)

\* json.dumps({"human_input": feedback_text})
JsonDumpsHumanInput(feedback_text) ==
    JsonPrefix \o JsonEscape(feedback_text) \o JsonSuffix

\* json.loads(text): [ok, human_input]; ok is FALSE where json.loads raises
JsonLoadsHumanInput(text) ==
    LET n == Len(text)
        p == Len(JsonPrefix)
        q == Len(JsonSuffix)
    IN IF n >= p + q
          /\ SubSeq(text, 1, p) = JsonPrefix
          /\ SubSeq(text, n - q + 1, n) = JsonSuffix
          /\ JsonUnescape(SubSeq(text, p + 1, n - q)) # Invalid
       THEN [ok |-> TRUE, human_input |-> JsonUnescape(SubSeq(text, p + 1, n - q))]
       ELSE [ok |-> FALSE, human_input |-> <<>>]

(***************************************************************************)
(* Parts and events.                                                       *)
(***************************************************************************)
TextPart(text) ==
    [kind |-> "text", name |-> NONE, id |-> 0, status |-> NONE,
     confirmed |-> FALSE, text |-> text]

FunctionCallPart(name, id) ==
    [kind |-> "function_call", name |-> name, id |-> id, status |-> NONE,
     confirmed |-> FALSE, text |-> <<>>]

FunctionResponsePart(name, id, status, confirmed) ==
    [kind |-> "function_response", name |-> name, id |-> id, status |-> status,
     confirmed |-> confirmed, text |-> <<>>]

Event(invocation_id, author, part) ==
    [invocation_id |-> invocation_id, author |-> author, parts |-> <<part>>]

(***************************************************************************)
(* human_feedback_input, check_for_approval, create_approval_response.     *)
(***************************************************************************)
\* the loop over tool_context.user_content.parts (lines 156-167)
RECURSIVE FeedbackFromParts(_)
FeedbackFromParts(parts) ==
    IF parts = <<>> THEN <<>>
    ELSE LET part == Head(parts)
             loaded == JsonLoadsHumanInput(part.text)
         IN IF part.kind = "text" /\ part.text # <<>> /\ loaded.ok
            THEN loaded.human_input
            ELSE FeedbackFromParts(Tail(parts))

human_feedback_input_ignores_decision(tool_confirmation, human_input, user_content) ==
    IF ~tool_confirmation.present
    THEN [status |-> "pending", feedback |-> <<>>, request |-> TRUE]
    ELSE [status |-> "approved", feedback |-> human_input, request |-> FALSE]

human_feedback_input(tool_confirmation, human_input, user_content) ==
    IF ~tool_confirmation.present
    THEN [status |-> "pending", feedback |-> <<>>, request |-> TRUE]
    ELSE LET confirmed == tool_confirmation.confirmed
             feedback_text ==
                 IF human_input # <<>> THEN human_input
                 ELSE FeedbackFromParts(user_content.parts)
         IN IF confirmed
            THEN [status |-> "approved", feedback |-> feedback_text, request |-> FALSE]
            ELSE [status |-> "rejected",
                  feedback |-> IF feedback_text # <<>> THEN feedback_text
                               ELSE <<"r", "e", "j", "e", "c", "t", "e", "d">>,
                  request |-> FALSE]

\* tool_context.tool_confirmation before and after the human has answered
NoConfirmation == [present |-> FALSE, confirmed |-> FALSE]

ToolConfirmation(confirmed) == [present |-> TRUE, confirmed |-> confirmed]

\* check_for_approval's None
NoApproval == [found |-> FALSE, approval_id |-> 0, invocation_id |-> NONE]

IsConfirmationCall(part) ==
    part.kind = "function_call" /\ part.name = "adk_request_confirmation"

check_for_approval_takes_any_call(evs) ==
    LET hits == {i \in 1..Len(evs) : evs[i].parts[1].kind = "function_call"}
    IN IF hits = {} THEN NoApproval
       ELSE LET i == CHOOSE k \in hits : \A j \in hits : k <= j
            IN [found |-> TRUE, approval_id |-> evs[i].parts[1].id,
                invocation_id |-> evs[i].invocation_id]

\* the first adk_request_confirmation call of evs, or None
check_for_approval(evs) ==
    LET hits == {i \in 1..Len(evs) :
                    \E j \in 1..Len(evs[i].parts) : IsConfirmationCall(evs[i].parts[j])}
    IN IF hits = {} THEN NoApproval
       ELSE LET i == CHOOSE k \in hits : \A j \in hits : k <= j
                js == {j \in 1..Len(evs[i].parts) : IsConfirmationCall(evs[i].parts[j])}
                j == CHOOSE k \in js : \A l \in js : k <= l
            IN [found |-> TRUE, approval_id |-> evs[i].parts[j].id,
                invocation_id |-> evs[i].invocation_id]

create_approval_response_always_text(approval_info, user_feedback) ==
    [role |-> "user",
     parts |-> <<FunctionResponsePart("adk_request_confirmation",
                                      approval_info.approval_id, NONE,
                                      user_feedback.status),
                 TextPart(JsonDumpsHumanInput(user_feedback.feedback))>>]

create_approval_response(approval_info, user_feedback) ==
    LET confirmed_bool == user_feedback.status
        feedback_text == user_feedback.feedback
        confirmation_response ==
            FunctionResponsePart("adk_request_confirmation",
                                 approval_info.approval_id, NONE, confirmed_bool)
    IN [role |-> "user",
        parts |-> <<confirmation_response>> \o
                  (IF feedback_text # <<>>
                   THEN <<TextPart(JsonDumpsHumanInput(feedback_text))>>
                   ELSE <<>>)]

\* approved_input in ("y", "yes", "approve", "approved") after strip().lower()
ApprovedInput(raw) ==
    Lower(Strip(raw)) \in {<<"y">>, <<"y", "e", "s">>,
                           <<"a", "p", "p", "r", "o", "v", "e">>,
                           <<"a", "p", "p", "r", "o", "v", "e", "d">>}


(***************************************************************************)
(* json.loads on the texts the agents answer with: null, true, false,      *)
(* unsigned integers, strings, arrays and objects.  A value is a record    *)
(* [type, text, items, keys]; JSON null is Python's None.                  *)
(***************************************************************************)
JValue(type, text, items, keys) ==
    [type |-> type, text |-> text, items |-> items, keys |-> keys]

PyNone == JValue("null", <<>>, <<>>, <<>>)

NoParse == [ok |-> FALSE, value |-> PyNone, next |-> 0]

Parsed(value, next) == [ok |-> TRUE, value |-> value, next |-> next]

RECURSIVE SkipSpace(_, _)
SkipSpace(s, i) == IF i <= Len(s) /\ IsSpace(s[i]) THEN SkipSpace(s, i + 1) ELSE i

\* s[i:].startswith(prefix)
StartsWithAt(s, i, prefix) ==
    /\ i + Len(prefix) - 1 <= Len(s)
    /\ \A k \in 1..Len(prefix) : s[i + k - 1] = prefix[k]

IsDigit(c) == c \in {"0", "1", "2", "3", "4", "5", "6", "7", "8", "9"}

RECURSIVE DigitsEnd(_, _)
DigitsEnd(s, i) == IF i <= Len(s) /\ IsDigit(s[i]) THEN DigitsEnd(s, i + 1) ELSE i

\* the index of the quote that closes the string literal whose body starts at
\* i, or 0 when there is none
StringEnd(s, i) ==
    LET closes(j) == s[j] = Quote /\ BackslashesBefore(s, i, j) % 2 = 0
    IN IF \E j \in i..Len(s) : closes(j)
       THEN CHOOSE j \in i..Len(s) : closes(j) /\ \A m \in i..(j - 1) : ~closes(m)
       ELSE 0

RECURSIVE ParseValue(_, _)
RECURSIVE ParseElements(_, _, _)
RECURSIVE ParseMembers(_, _, _, _)

\* the string literal whose body is s[i+1..j-1], or no parse where it is not
\* closed or its body is no JSON string
StringLiteral(body, next) ==
    IF body = Invalid THEN NoParse ELSE Parsed(JValue("string", body, <<>>, <<>>), next)

StringAt(s, i, j) ==
    IF j = 0 \/ j > Len(s) THEN NoParse
    ELSE StringLiteral(JsonUnescape(SubSeq(s, i + 1, j - 1)), j + 1)

NumberAt(s, i, j) == Parsed(JValue("number", SubSeq(s, i, j - 1), <<>>, <<>>), j)

\* the JSON value that starts at s[i]: [ok, value, next]
ParseValue(s, i) ==
    IF i > Len(s) THEN NoParse
    ELSE IF s[i] = Quote THEN StringAt(s, i, StringEnd(s, i + 1))
    ELSE IF s[i] = "[" THEN ParseElements(s, SkipSpace(s, i + 1), <<>>)
    ELSE IF s[i] = "{" THEN ParseMembers(s, SkipSpace(s, i + 1), <<>>, <<>>)
    ELSE IF IsDigit(s[i]) THEN NumberAt(s, i, DigitsEnd(s, i))
    ELSE IF StartsWithAt(s, i, <<"n", "u", "l", "l">>) THEN Parsed(PyNone, i + 4)
    ELSE IF StartsWithAt(s, i, <<"t", "r", "u", "e">>)
    THEN Parsed(JValue("bool", <<"t", "r", "u", "e">>, <<>>, <<>>), i + 4)
    ELSE IF StartsWithAt(s, i, <<"f", "a", "l", "s", "e">>)
    THEN Parsed(JValue("bool", <<"f", "a", "l", "s", "e">>, <<>>, <<>>), i + 5)
    ELSE NoParse

\* an element v was read and s[k] follows it: "]" closes the array, "," goes on
AfterElement(s, acc, v, k) ==
    IF ~v.ok \/ k > Len(s) THEN NoParse
    ELSE IF s[k] = "]" THEN Parsed(JValue("array", <<>>, Append(acc, v.value), <<>>), k + 1)
    ELSE IF s[k] = "," THEN ParseElements(s, SkipSpace(s, k + 1), Append(acc, v.value))
    ELSE NoParse

ElementAt(s, acc, v) == AfterElement(s, acc, v, SkipSpace(s, v.next))

\* the elements of an array from s[i] on; "]" closes it only where no comma
\* came just before
ParseElements(s, i, acc) ==
    IF i > Len(s) THEN NoParse
    ELSE IF s[i] = "]"
    THEN IF acc = <<>> THEN Parsed(JValue("array", <<>>, <<>>, <<>>), i + 1) ELSE NoParse
    ELSE ElementAt(s, acc, ParseValue(s, i))

\* a member key: v was read and s[k] follows it: "}" closes the object
AfterMember(s, keys, vals, key, v, k) ==
    IF ~v.ok \/ k > Len(s) THEN NoParse
    ELSE IF s[k] = "}"
    THEN Parsed(JValue("object", <<>>, Append(vals, v.value), Append(keys, key.value.text)),
                k + 1)
    ELSE IF s[k] = ","
    THEN ParseMembers(s, SkipSpace(s, k + 1), Append(keys, key.value.text),
                      Append(vals, v.value))
    ELSE NoParse

MemberValue(s, keys, vals, key, v) == AfterMember(s, keys, vals, key, v, SkipSpace(s, v.next))

\* a key was read and s[c] follows it
AfterKey(s, keys, vals, key, c) ==
    IF ~key.ok \/ key.value.type # "string" \/ c > Len(s) THEN NoParse
    ELSE IF s[c] # ":" THEN NoParse
    ELSE MemberValue(s, keys, vals, key, ParseValue(s, SkipSpace(s, c + 1)))

MemberAt(s, keys, vals, key) == AfterKey(s, keys, vals, key, SkipSpace(s, key.next))

\* the members of an object from s[i] on
ParseMembers(s, i, keys, vals) ==
    IF i > Len(s) THEN NoParse
    ELSE IF s[i] = "}"
    THEN IF keys = <<>> THEN Parsed(JValue("object", <<>>, <<>>, <<>>), i + 1) ELSE NoParse
    ELSE MemberAt(s, keys, vals, ParseValue(s, i))

\* the text is one JSON value with white space around it, or json.loads raises
WholeText(text, v) ==
    IF v.ok /\ SkipSpace(text, v.next) = Len(text) + 1
    THEN [ok |-> TRUE, value |-> v.value]
    ELSE [ok |-> FALSE, value |-> PyNone]

\* json.loads(text): [ok, value]; ok is FALSE where json.loads raises
json_loads(text) == WholeText(text, ParseValue(text, SkipSpace(text, 1)))

(***************************************************************************)
(* Texts an agent's answer may carry.                                      *)
(***************************************************************************)
\* the grave accent (U+0060) of a markdown fence, written as one character
Backtick == "~"

\* a plan as bare JSON
BarePlan ==
    <<"[", Quote, "D", "a", "y", " ", "1", Quote, "]">>

\* a plan in a json fence
FencedPlan ==
    <<Backtick, Backtick, Backtick, "j", "s", "o", "n", "\n", "[", Quote, "D", "a", "y",
      " ", "2", Quote, "]", "\n", Backtick, Backtick, Backtick>>

\* a fenced plan followed by a newline
FencedPlanNewline ==
    <<Backtick, Backtick, Backtick, "j", "s", "o", "n", "\n", "[", Quote, "D", "a", "y",
      " ", "3", Quote, "]", "\n", Backtick, Backtick, Backtick, "\n">>

\* a plan in a fence without the json tag
PlainFencedPlan ==
    <<Backtick, Backtick, Backtick, "\n", "[", Quote, "D", "a", "y", " ", "4", Quote, "]",
      "\n", Backtick, Backtick, Backtick>>

\* an array that is no plan
MixedArray ==
    <<"[", Quote, "D", "a", "y", " ", "1", Quote, ",", " ", "5", "]">>

\* a content object in a json fence
FencedObject ==
    <<Backtick, Backtick, Backtick, "j", "s", "o", "n", "\n", "{", Quote, "t", "i", "t",
      "l", "e", Quote, ":", " ", Quote, "T", Quote, "}", "\n", Backtick, Backtick, Backtick>>

\* a json fence whose content does not parse
FencedMalformed ==
    <<Backtick, Backtick, Backtick, "j", "s", "o", "n", "\n", "[", Quote, "D", "a", "y",
      " ", "1", Quote, "\n", Backtick, Backtick, Backtick>>

\* JSON null in a json fence
FencedNull ==
    <<Backtick, Backtick, Backtick, "j", "s", "o", "n", "\n", "n", "u", "l", "l", "\n", Backtick,
      Backtick, Backtick>>

\* the marker with white space around it
ApprovedText ==
    <<" ", "A", "P", "P", "R", "O", "V", "E", "D", "\n">>

\* the marker among other text
ApprovedAmongText ==
    <<"A", "P", "P", "R", "O", "V", "E", "D", " ", "n", "o", "w">>

\* a JSON scalar
BareObject == <<"{", Quote, "t", "i", "t", "l", "e", Quote, ":", " ", Quote, "T", Quote, "}">>

SpacedObject == <<" ">> \o BareObject \o <<"\n">>

RefinedObject == <<"{", Quote, "t", "i", "t", "l", "e", Quote, ":", " ", Quote, "R", Quote, "}">>

Comments == <<"t">>

ScalarText ==
    <<"5">>

\* white space only
BlankText ==
    <<" ">>

AnswerTexts ==
    {BarePlan, FencedPlan, FencedPlanNewline, PlainFencedPlan,
     MixedArray, FencedObject, FencedMalformed, FencedNull,
     ApprovedText, ApprovedAmongText, ScalarText, BlankText,
     <<>>}

APPROVED ==
    <<"A", "P", "P", "R", "O", "V", "E", "D">>

FenceMark ==
    <<Backtick, Backtick, Backtick>>

JsonFenceMark ==
    <<Backtick, Backtick, Backtick, "j", "s", "o", "n">>

TitleKey ==
    <<"t", "i", "t", "l", "e">>

DayPrefix ==
    <<"D", "a", "y", " ">>

(***************************************************************************)
(* Parsing of an answer: safe_json_loads and the fence search of           *)
(* extract_latest_output.                                                  *)
(***************************************************************************)
\* index of the first occurrence of sub in s at or after i, 0 when there is none
Find(s, sub, i) ==
    IF \E j \in i..Len(s) : StartsWithAt(s, j, sub)
    THEN CHOOSE j \in i..Len(s) :
            StartsWithAt(s, j, sub) /\ \A m \in i..(j - 1) : ~StartsWithAt(s, m, sub)
    ELSE 0

Contains(s, sub) == Find(s, sub, 1) # 0

\* index of the last newline of s at or before i, 0 when there is none
RECURSIVE LastNewline(_, _)
LastNewline(s, i) ==
    IF i = 0 THEN 0 ELSE IF s[i] = "\n" THEN i ELSE LastNewline(s, i - 1)

\* "\n".join(text.split("\n")[1:-1])
InnerLines(text) ==
    LET first == Find(text, <<"\n">>, 1)
        last == LastNewline(text, Len(text))
    IN IF first = 0 \/ first = last THEN <<>> ELSE SubSeq(text, first + 1, last - 1)

\* lines 43-48: the value json.loads gives, None where it raises
ValueOrNone(r) == [raised |-> FALSE, value |-> IF r.ok THEN r.value ELSE PyNone]

\* safe_json_loads(text): [raised, value]; value is None where json.loads fails
safe_json_loads(text) ==
    IF Strip(text) = <<>> THEN [raised |-> TRUE, value |-> PyNone]
    ELSE ValueOrNone(json_loads(IF StartsWithAt(text, 1, FenceMark)
                                THEN Strip(InnerLines(text)) ELSE text))

\* re.search of a json fence, anything, a fence (line 335): [found, group]
BlockBetween(stripped, open, from, close) ==
    IF open = 0 \/ close = 0 THEN [found |-> FALSE, group |-> <<>>]
    ELSE [found |-> TRUE, group |-> SubSeq(stripped, from, close - 1)]

BlockFrom(stripped, open, from) ==
    BlockBetween(stripped, open, from, Find(stripped, FenceMark, from))

BlockAt(stripped, open) ==
    BlockFrom(stripped, open, SkipSpace(stripped, open + Len(JsonFenceMark)))

JsonBlock(stripped) == BlockAt(stripped, Find(stripped, JsonFenceMark, 1))

StringValue(text) == JValue("string", text, <<>>, <<>>)

ListValue(items) == JValue("array", <<>>, items, <<>>)

(***************************************************************************)
(* extract_latest_output: the scan of the events with its two locals.      *)
(***************************************************************************)
\* lines 336-342: a block that parses becomes last_json
KeepParsed(acc, block, parsed) ==
    IF block.found /\ parsed.ok THEN [acc EXCEPT !.last_json = parsed.value] ELSE acc

KeepBlock(acc, block) == KeepParsed(acc, block, json_loads(Strip(block.group)))

ScanText_marker_anywhere(acc, stripped) ==
    KeepBlock(IF Contains(stripped, APPROVED)
              THEN [acc EXCEPT !.last_approved = StringValue(APPROVED)] ELSE acc,
              JsonBlock(stripped))

\* lines 328-342: a text part
ScanText(acc, stripped) ==
    KeepBlock(IF stripped = APPROVED
              THEN [acc EXCEPT !.last_approved = StringValue(APPROVED)] ELSE acc,
              JsonBlock(stripped))

ScanPart_marker_anywhere(acc, part) ==
    IF part.kind = "text" THEN ScanText_marker_anywhere(acc, Strip(part.text))
    ELSE IF part.kind = "function_response" /\ part.status # NONE
    THEN [acc EXCEPT !.last_approved = StringValue(APPROVED)]
    ELSE acc

\* lines 324-351: what one part does to last_json and last_approved
ScanPart(acc, part) ==
    IF part.kind = "text" THEN ScanText(acc, Strip(part.text))
    ELSE IF part.kind = "function_response" /\ part.status = "approved"
    THEN [acc EXCEPT !.last_approved = StringValue(APPROVED)]
    ELSE acc

RECURSIVE ScanParts(_, _)
ScanParts(acc, parts) ==
    IF parts = <<>> THEN acc ELSE ScanParts(ScanPart(acc, Head(parts)), Tail(parts))

\* lines 316-351: the loop over the events
RECURSIVE ScanEvents(_, _)
ScanEvents(acc, evs) ==
    IF evs = <<>> THEN acc
    ELSE ScanEvents(ScanParts(acc, Head(evs).parts), Tail(evs))

\* lines 353-359: what extract_latest_output returns
Returned(acc) ==
    IF acc.last_json # PyNone THEN acc.last_json
    ELSE IF acc.last_approved # PyNone THEN StringValue(APPROVED)
    ELSE PyNone

(***************************************************************************)
(* The extraction loops of main (lines 963-978) and of content_generator   *)
(* (lines 597-621).                                                        *)
(***************************************************************************)
\* Event.is_final_response(): the event closes its step's turn
is_final_response(event) ==
    \A i \in 1..Len(event.parts) :
        event.parts[i].kind \notin {"function_call", "function_response"}

\* hasattr(part, "text") and part.text
HasText(part) == part.kind = "text" /\ part.text # <<>>

\* isinstance(parts, list) and all(isinstance(x, str) and x.startswith("Day "))
IsPlan(parts) ==
    /\ parts.type = "array"
    /\ \A i \in 1..Len(parts.items) :
          /\ parts.items[i].type = "string"
          /\ StartsWithAt(parts.items[i].text, 1, DayPrefix)

\* main, lines 971-976: the parsed value replaces final_output if it is a plan
KeepPlan(final_output, parts) ==
    IF ~parts.raised /\ IsPlan(parts.value) THEN parts.value ELSE final_output

\* main, lines 969-978: one part of a final event
LessonPart(final_output, part) ==
    IF HasText(part) THEN KeepPlan(final_output, safe_json_loads(part.text))
    ELSE final_output

RECURSIVE LessonParts(_, _)
LessonParts(final_output, parts) ==
    IF parts = <<>> THEN final_output
    ELSE LessonParts(LessonPart(final_output, Head(parts)), Tail(parts))

\* main, lines 963-978: final_output after the loop over the events
RECURSIVE LessonEvents(_, _)
LessonEvents(final_output, evs) ==
    IF evs = <<>> THEN final_output
    ELSE LessonEvents(IF is_final_response(Head(evs))
                      THEN LessonParts(final_output, Head(evs).parts)
                      ELSE final_output,
                      Tail(evs))

\* content_generator, lines 603-606: the stripped texts of an event's parts
RECURSIVE StrippedTexts(_)
StrippedTexts(parts) ==
    IF parts = <<>> THEN <<>>
    ELSE (IF HasText(Head(parts)) THEN <<StringValue(Strip(Head(parts).text))>> ELSE <<>>)
         \o StrippedTexts(Tail(parts))

\* "".join(parts)
RECURSIVE Joined(_)
Joined(parts) == IF parts = <<>> THEN <<>> ELSE Head(parts).text \o Joined(Tail(parts))

\* "title" in parsed_output: [raised, holds]; raised where Python raises TypeError
TitleIn(parsed_output) ==
    CASE parsed_output.type = "object" ->
            [raised |-> FALSE,
             holds |-> \E i \in 1..Len(parsed_output.keys) : parsed_output.keys[i] = TitleKey]
      [] parsed_output.type = "array" ->
            [raised |-> FALSE,
             holds |-> \E i \in 1..Len(parsed_output.items) :
                          parsed_output.items[i] = StringValue(TitleKey)]
      [] parsed_output.type = "string" ->
            [raised |-> FALSE, holds |-> Contains(parsed_output.text, TitleKey)]
      [] OTHER -> [raised |-> TRUE, holds |-> FALSE]

\* content_generator, lines 609-612: the tests of the parsed output
KeepTitled(final_output, parts, title) ==
    IF title.raised THEN [raised |-> TRUE, final_output |-> final_output]
    ELSE [raised |-> FALSE,
          final_output |-> IF title.holds THEN ListValue(parts) ELSE final_output]

KeepContent(final_output, parts, parsed_output) ==
    IF parsed_output.raised THEN [raised |-> TRUE, final_output |-> final_output]
    ELSE IF parsed_output.value = PyNone
    THEN [raised |-> FALSE, final_output |-> final_output]
    ELSE KeepTitled(final_output, parts, TitleIn(parsed_output.value))

ContentParts(final_output, parts) ==
    KeepContent(final_output, parts, safe_json_loads(Joined(parts)))

\* content_generator, lines 599-612: one event; [raised, final_output]
ContentEvent(final_output, event) ==
    IF is_final_response(event) /\ event.parts # <<>>
    THEN ContentParts(final_output, StrippedTexts(event.parts))
    ELSE [raised |-> FALSE, final_output |-> final_output]

\* content_generator, lines 597-613: the loop over the events, left where an
\* exception is raised
RECURSIVE ContentEvents(_, _)

\* the loop goes on unless the event raised
NextContentEvent(one, evs) ==
    IF one.raised THEN one ELSE ContentEvents(one.final_output, evs)

ContentEvents(final_output, evs) ==
    IF evs = <<>> THEN [raised |-> FALSE, final_output |-> final_output]
    ELSE NextContentEvent(ContentEvent(final_output, Head(evs)), Tail(evs))

(***************************************************************************)
(* The guardrail of the lesson plan generator.                             *)
(***************************************************************************)
MAX_TOPIC_LENGTH == 200

MIN_TOPIC_LENGTH == 3

\* \w of a regular expression
IsWord(c) ==
    \/ \E i \in 1..Len(UpperCase) : c \in {UpperCase[i], LowerCase[i]}
    \/ c = "_"
    \/ IsDigit(c)

\* re.sub(r"\s+", " ", t): every run of white space becomes one space
CollapseSpace(t) ==
    Concat([i \in 1..Len(t) |->
               IF ~IsSpace(t[i]) THEN <<t[i]>>
               ELSE IF i < Len(t) /\ IsSpace(t[i + 1]) THEN <<>> ELSE <<" ">>],
           1, Len(t))

\* basic_input_sanitize(topic), lines 189-192
basic_input_sanitize(topic) == CollapseSpace(Strip(topic))

ALLOWED_TOPIC_RE_search(topic) ==
    \E i \in 1..Len(topic) :
        \/ IsWord(topic[i])
        \/ IsSpace(topic[i])
        \/ topic[i] \in {"-", ":", ",", ".", "&", "(", ")", "'"}

\* ALLOWED_TOPIC_RE.match(topic): ^[\w\s\-\:\,\.&\(\)']+$
ALLOWED_TOPIC_RE(topic) ==
    /\ topic # <<>>
    /\ \A i \in 1..Len(topic) :
          \/ IsWord(topic[i])
          \/ IsSpace(topic[i])
          \/ topic[i] \in {"-", ":", ",", ".", "&", "(", ")", "'"}

\* a match of ^...$ may end before one final newline
BeforeFinalNewline(text) ==
    IF text # <<>> /\ text[Len(text)] = "\n" THEN Front(text) ELSE text

\* re.match(ALLOWED_EXPERIENCE_PATTERN, experience): ^\d+ year(s)?$
ALLOWED_EXPERIENCE_PATTERN(experience) ==
    LET t == BeforeFinalNewline(experience)
        d == DigitsEnd(t, 1)
    IN /\ d > 1
       /\ SubSeq(t, d, Len(t)) \in {<<" ", "y", "e", "a", "r">>,
                                    <<" ", "y", "e", "a", "r", "s">>}

\* re.match(r"^\d+$", duration)
DurationPattern(duration) ==
    LET t == BeforeFinalNewline(duration)
    IN t # <<>> /\ DigitsEnd(t, 1) = Len(t) + 1

BLOCKED_KEYWORDS ==
    {<<"b", "o", "m", "b">>,
     <<"g", "u", "n">>,
     <<"h", "o", "w", " ", "t", "o", " ", "m", "a", "k", "e">>,
     <<"k", "i", "l", "l">>,
     <<"s", "u", "i", "c", "i", "d", "e">>,
     <<"c", "h", "i", "l", "d", " ", "a", "b", "u", "s", "e">>,
     <<"p", "o", "r", "n">>,
     <<"s", "e", "x">>,
     <<"h", "a", "t", "e", " ", "s", "p", "e", "e", "c", "h">>,
     <<"t", "e", "r", "r", "o", "r", "i", "s", "t">>,
     <<"a", "t", "t", "a", "c", "k">>,
     <<"a", "s", "s", "a", "s", "s", "i", "n", "a", "t", "e">>}

\* contains_blocked_keyword(text), lines 217-224
contains_blocked_keyword(text) ==
    \E kw \in BLOCKED_KEYWORDS : Contains(Lower(text), kw)

\* the texts of the six rejections, lines 272-300
TooSmallMessage ==
    "Error: Too small for the lesson plan generator. Please provide a specific educational topic"

TooLongMessage == "Error: Topic too long (>200 reached).  Please shorten the topic"

DisallowedMessage ==
    "Error: topic contains disallowed characters. Please use simple text (letters, numbers, spaces and punctuation)."

NotPermittedMessage ==
    "Error: the requested topic is not permitted for this educational tool."

ExperienceMessage ==
    "Error: invalid experience error format.  Please enter the experience in this format (1 year, 2 years etc)."

DurationMessage == "Error invalid duration format. Please enter the duration in integer"

\* LlmResponse(text=...), the None that lets the model call proceed, and an
\* exception that leaves the callback
LlmResponse(text) == [rejected |-> TRUE, raised |-> FALSE, text |-> text]

Proceed == [rejected |-> FALSE, raised |-> FALSE, text |-> ""]

Raises(error) == [rejected |-> FALSE, raised |-> TRUE, text |-> error]

JsonString(s) == <<Quote>> \o JsonEscape(s) \o <<Quote>>

\* json.dumps(user_response), line 928
json_dumps(user_response) ==
    <<"{">> \o JsonString(<<"t", "o", "p", "i", "c">>) \o <<":", " ">>
    \o JsonString(user_response.topic) \o <<",", " ">>
    \o JsonString(<<"l", "e", "a", "r", "n", "e", "r", "_", "p", "r", "o", "f", "i", "l", "e">>)
    \o <<":", " ">> \o JsonString(user_response.learner_profile) \o <<",", " ">>
    \o JsonString(<<"d", "u", "r", "a", "t", "i", "o", "n">>) \o <<":", " ">>
    \o JsonString(user_response.duration) \o <<"}">>

\* key in prompt_test, and prompt_test[key], of a parsed JSON object
HasKey(object, key) == \E i \in 1..Len(object.keys) : object.keys[i] = key

Member(object, key) ==
    object.items[CHOOSE i \in 1..Len(object.keys) :
                    object.keys[i] = key /\ \A j \in (i + 1)..Len(object.keys) : object.keys[j] # key]

TopicKey == <<"t", "o", "p", "i", "c">>

LearnerProfileKey ==
    <<"l", "e", "a", "r", "n", "e", "r", "_", "p", "r", "o", "f", "i", "l", "e">>

DurationKey == <<"d", "u", "r", "a", "t", "i", "o", "n">>

\* a value re.match takes, and one len takes
IsStr(v) == v # PyNone /\ v.type = "string"

HasLen(v) == v # PyNone /\ v.type \in {"string", "array", "object"}

PyLen(v) == IF v.type = "string" THEN Len(v.text) ELSE Len(v.items)

\* lines 272-302: the six checks, each on the value read from the parsed text
Checks(topic, experience, duration) ==
    IF ~HasLen(topic) THEN Raises("TypeError")
    ELSE IF PyLen(topic) < MIN_TOPIC_LENGTH THEN LlmResponse(TooSmallMessage)
    ELSE IF PyLen(topic) > MAX_TOPIC_LENGTH THEN LlmResponse(TooLongMessage)
    ELSE IF ~IsStr(topic) THEN Raises("TypeError")
    ELSE IF ~ALLOWED_TOPIC_RE(topic.text) THEN LlmResponse(DisallowedMessage)
    ELSE IF contains_blocked_keyword(topic.text) THEN LlmResponse(NotPermittedMessage)
    ELSE IF ~IsStr(experience) THEN Raises("TypeError")
    ELSE IF ~ALLOWED_EXPERIENCE_PATTERN(experience.text) THEN LlmResponse(ExperienceMessage)
    ELSE IF ~IsStr(duration) THEN Raises("TypeError")
    ELSE IF ~DurationPattern(duration.text) THEN LlmResponse(DurationMessage)
    ELSE Proceed

\* lines 268-270: the three values are read from the parsed text
Lookups(parsed) ==
    IF parsed = PyNone \/ parsed.type # "object" THEN Raises("TypeError")
    ELSE IF ~HasKey(parsed, TopicKey) \/ ~HasKey(parsed, LearnerProfileKey)
            \/ ~HasKey(parsed, DurationKey)
    THEN Raises("KeyError")
    ELSE Checks(Member(parsed, TopicKey), Member(parsed, LearnerProfileKey),
                Member(parsed, DurationKey))

\* line 266: json.loads is called outside the try of lines 240-264
Loaded(r) == IF r.ok THEN Lookups(r.value) ELSE Raises("JSONDecodeError")

\* lesson_before_model_callback on the text of the request's first part,
\* lines 266-302
lesson_before_model_callback(prompt_test) ==
    Loaded(json_loads(basic_input_sanitize(prompt_test)))

\* what the user may type at user_input's three prompts, stripped (lines 51-68)
Repeat(c, n) == [i \in 1..n |-> c]

PythonProgramming == <<"P", "y", "t", "h", "o", "n", " ", "P", "r", "o", "g", "r", "a", "m", "m", "i",
      "n", "g">>

\* "how" and "to make" with two spaces between them
HowToMake == <<"h", "o", "w", " ", " ", "t", "o", " ", "m", "a", "k", "e">>

Topics ==
    {<<>>, <<"a", "b">>, Repeat("a", 3), Repeat("a", 200), Repeat("a", 201),
     <<"a", " ", " ">> \o Repeat("a", 198),
     <<"a", ";">>, <<"a", "b", ";">>, Repeat(";", 201),
     <<"v", "a", "l", "i", "d", " ", "t", "o", "p", "i", "c">>, PythonProgramming,
     <<"a", "-", "b", ":", "c", ",", "d", ".", "e", "&", "(", "f", ")", "'", "g", "_",
      "1">>,
     <<"B", "o", "m", "b">>, <<"g", "u", "n", ";">>, <<"E", "s", "s", "e", "x">>,
     <<"B", "O", "M", "B">>, HowToMake, <<"h", "o", "w", " ">> \o HowToMake}

OneYear == <<"1", " ", "y", "e", "a", "r">>

Experiences ==
    {OneYear, <<"5", " ", "y", "e", "a", "r", "s">>, <<"1", " ", " ", "y", "e", "a", "r">>, <<"o", "n", "e", " ", "y", "e", "a", "r">>, <<>>}

Durations == {<<"3">>, <<"1", "0">>, <<"x">>, <<>>}

UserResponses ==
    [topic : Topics, learner_profile : Experiences, duration : Durations]

\* the record of spec section 8's end-to-end run
SeedResponse ==
    [topic |-> PythonProgramming, learner_profile |-> OneYear, duration |-> <<"3">>]

\* requests that are not what json.dumps makes of user_input's record
Field(key, value) == JsonString(key) \o <<":", " ">> \o value

ValidTopic == <<"v", "a", "l", "i", "d", " ", "t", "o", "p", "i", "c">>

NotJson == <<"h", "e", "l", "l", "o">>

MissingDuration ==
    <<"{">> \o Field(TopicKey, JsonString(ValidTopic)) \o <<",", " ">>
    \o Field(LearnerProfileKey, JsonString(OneYear)) \o <<"}">>

NumberDuration ==
    <<"{">> \o Field(TopicKey, JsonString(ValidTopic)) \o <<",", " ">>
    \o Field(LearnerProfileKey, JsonString(OneYear)) \o <<",", " ">>
    \o Field(DurationKey, <<"3">>) \o <<"}">>

NumberTopic ==
    <<"{">> \o Field(TopicKey, <<"5">>) \o <<",", " ">>
    \o Field(LearnerProfileKey, JsonString(OneYear)) \o <<",", " ">>
    \o Field(DurationKey, JsonString(<<"3">>)) \o <<"}">>

ForeignRequests == {NotJson, BarePlan, MissingDuration, NumberDuration, NumberTopic}

Requests == {json_dumps(r) : r \in UserResponses} \cup ForeignRequests

(***************************************************************************)
(* State.                                                                  *)
(***************************************************************************)
VARIABLES
    pipeline,            \* which tree this run executes
    cfgMax,              \* max_iterations of the parametric loop
    cfgTools,            \* tools of the parametric loop's two steps
    invocation,          \* the invocation id the Runner gives the run
    ctx,                 \* the engine's position in the tree and its loops' states
    runState,            \* idle, running, suspended or done
    pending,             \* the engine's open confirmation requests
    resolved,            \* call ids of the confirmation requests already answered
    nextId,              \* the next function-call id
    rounds,              \* confirmation requests issued so far
    events,              \* the module-level list events (line 624)
    dummy_events,        \* ai_executor's local list
    pc,                  \* where main, ai_executor or content_generator stands
    approval_info,       \* the result of the last check_for_approval
    query_content,       \* the last resume message built
    exec_invocation_id,  \* ai_executor's parameter invocation_id
    lastResume,          \* the last resume attempt and the confirmation it met
    toolResult,          \* what human_feedback_input last returned
    lastError,           \* the error the last resume attempt raised
    answer,              \* what the human typed at the two prompts, until delivered
    stray,               \* the last resume attempt made outside main's flow, if any
    last_json,           \* extract_latest_output's local, as its last call left it
    last_approved,       \* extract_latest_output's local, as its last call left it
    final_output,        \* the local final_output of main and of content_generator
    extracted,           \* the last extraction: who ran it, whether it raised, its result
    memo,                \* the first call of extract_latest_output: its events, its result
    state,               \* the session's state: what each output_key holds
    seen,                \* the step that took the last turn and the state it was given
    user_response,       \* what user_input returned: topic, learner_profile, duration
    llm_request,         \* the text of the first part of the generator's request
    llm_response,        \* what lesson_before_model_callback returned
    content_map,         \* the module-level dict content_map (line 214)
    concept_tobe_used,   \* what user_concept_selection last returned to main
    shown,               \* the cached content main last printed, if any
    generated            \* how many times content_generator was called, per concept

vars == <<pipeline, cfgMax, cfgTools, invocation, ctx, runState, pending, resolved,
          nextId, rounds, events, dummy_events, pc, approval_info, query_content,
          exec_invocation_id, lastResume, toolResult, lastError, answer, stray,
          last_json, last_approved, final_output, extracted, memo, state, seen,
          user_response, llm_request, llm_response, content_map, concept_tobe_used,
          shown, generated>>

\* what the extractions read and leave
extractVars == <<last_json, last_approved, final_output, extracted, memo>>

\* the session's state and the view of it the last step had
storeVars == <<state, seen>>

\* the guardrail's input and result
guardVars == <<user_response, llm_request, llm_response>>

\* the result cache of main and what the selections did with it
cacheVars == <<content_map, concept_tobe_used, shown, generated>>

\* line 214: content_map = {}, a dict without a key
NoEntries == [concept \in {} |-> PyNone]

\* before main's first selection: nothing stored, selected, printed or generated
NoCache ==
    /\ content_map = NoEntries
    /\ concept_tobe_used = PyNone
    /\ shown = PyNone
    /\ generated = NoEntries

\* the Runner draws a fresh id for the run; session_id is main's own string
InvocationIds == {"e-1"}

session_id == "lesson_1"

\* what the human may type at the two prompts
DecisionInputs == {<<"y">>, <<"n">>, <<" ", "Y", "E", "S", " ">>}

FeedbackInputs == {<<>>, <<" ">>, <<"a", Quote>>}

\* the human_input argument the agent's model may pass to human_feedback_input
HumanInputArgs == {<<>>, <<"h">>}

(***************************************************************************)
(* The engine: Sequential and Loop composites.                             *)
(***************************************************************************)
Node(name, n) ==
    CASE name = "ContentRefinementLoop" -> content_refinement_loop
      [] name = "ContentPlanPipeline"   -> ContentPlanPipeline
      [] name = "LessonRefinementLoop"  -> lesson_plan_refinement_loop
      [] name = "HumanFeedbackLoop"     -> human_feedback_loop
      [] name = "LessonPlanPipeline"    -> LessonPlanPipeline
      [] name = "ParametricLoop"        -> ParametricLoop(n)

EmptyContext ==
    [stack   |-> <<>>,
     status  |-> [l \in Loops |-> "IDLE"],
     runs    |-> [a \in LeafAgents |-> 0],
     exits   |-> [a \in LeafAgents |-> 0],
     endIter |-> [l \in Loops |-> 0],
     raiser  |-> [l \in Loops |-> NONE],
     signal  |-> NONE]

\* start running `name`: descend to the first leaf step, opening each composite
RECURSIVE Enter(_, _, _)
Enter(name, c, n) ==
    IF name \in LeafAgents THEN c
    ELSE LET node == Node(name, n)
             opened ==
                 [c EXCEPT
                    !.stack = Append(@, [node |-> name, idx |-> 1, times_looped |-> 0]),
                    !.status = [l \in Loops |-> IF l = name THEN "RUNNING" ELSE @[l]],
                    !.endIter = [l \in Loops |-> IF l = name THEN 0 ELSE @[l]],
                    !.raiser = [l \in Loops |-> IF l = name THEN NONE ELSE @[l]],
                    !.runs = [a \in LeafAgents |->
                                 IF a \in Range(node.sub_agents) THEN 0 ELSE @[a]],
                    !.exits = [a \in LeafAgents |->
                                 IF a \in Range(node.sub_agents) THEN 0 ELSE @[a]]]
         IN Enter(node.sub_agents[1], opened, n)

\* a loop that saw the signal stops and consumes it
LoopEscalated(c, f, rest) ==
    [c EXCEPT !.stack = rest,
              !.status[f.node] = "ESCALATED",
              !.endIter[f.node] = f.times_looped + 1,
              !.raiser[f.node] = c.signal,
              !.signal = NONE]

\* the step at the top frame's position has completed
RECURSIVE Complete(_, _)
Complete(c, n) ==
    IF c.stack = <<>> THEN c
    ELSE LET f == c.stack[Len(c.stack)]
             rest == Front(c.stack)
             node == Node(f.node, n)
         IN IF node.kind = "sequential"
            THEN IF f.idx < Len(node.sub_agents)
                 THEN Enter(node.sub_agents[f.idx + 1],
                            [c EXCEPT !.stack = Append(rest, [f EXCEPT !.idx = @ + 1])], n)
                 ELSE Complete([c EXCEPT !.stack = rest], n)
            ELSE IF c.signal # NONE
                 THEN Complete(LoopEscalated(c, f, rest), n)
                 ELSE IF f.idx < Len(node.sub_agents)
                      THEN Enter(node.sub_agents[f.idx + 1],
                                 [c EXCEPT !.stack = Append(rest, [f EXCEPT !.idx = @ + 1])], n)
                      ELSE IF f.times_looped + 1 < node.max_iterations
                           THEN Enter(node.sub_agents[1],
                                      [c EXCEPT !.stack =
                                          Append(rest, [f EXCEPT !.idx = 1,
                                                                 !.times_looped = @ + 1])], n)
                           ELSE Complete([c EXCEPT !.stack = rest,
                                                   !.status[f.node] = "ITERATIONS_EXHAUSTED",
                                                   !.endIter[f.node] = f.times_looped + 1], n)

CurrentAgent(c, n) ==
    LET f == c.stack[Len(c.stack)] IN Node(f.node, n).sub_agents[f.idx]

RootOf(p) ==
    CASE p = "lesson"  -> "LessonPlanPipeline"
      [] p = "content" -> "ContentPlanPipeline"
      [] p = "loop"    -> "ParametricLoop"

OutputKey_refiner_elsewhere(agent) ==
    CASE agent = "content_generator_agent"     -> "generated_content"
      [] agent = "content_reviewer_agent"      -> "reviewer_content"
      [] agent = "content_refiner_agent"       -> "generated_content"
      [] agent = "lesson_plan_generator_agent" -> "generated_plan"
      [] agent = "lesson_plan_reviewer_agent"  -> "reviewer_output"
      [] agent = "lesson_plan_refiner_agent"   -> "reviewer_output"
      [] agent = "human_feedback_agent"        -> "human_input"
      [] OTHER                                 -> NONE

\* the output_key= argument of each Agent(...)
OutputKey(agent) ==
    CASE agent = "content_generator_agent"     -> "generated_content"
      [] agent = "content_reviewer_agent"      -> "reviewer_content"
      [] agent = "content_refiner_agent"       -> "generated_content"
      [] agent = "lesson_plan_generator_agent" -> "generated_plan"
      [] agent = "lesson_plan_reviewer_agent"  -> "reviewer_output"
      [] agent = "lesson_plan_refiner_agent"   -> "generated_plan"
      [] agent = "human_feedback_agent"        -> "human_input"
      [] OTHER                                 -> NONE

StateKeys == {OutputKey(a) : a \in LeafAgents} \ {NONE}

NoValue == [set |-> FALSE, text |-> <<>>]

EmptyState == [k \in StateKeys |-> NoValue]

NoView == [agent |-> NONE, at |-> 0, state |-> EmptyState]

\* a step's final text is stored under its output key
Write(st, key, text) ==
    IF key = NONE THEN st ELSE [st EXCEPT ![key] = [set |-> TRUE, text |-> text]]

\* what the model of each agent may answer: the content generator an artifact
\* in the form its instruction asks for, fenced or with white space around it,
\* or something else; the content reviewer APPROVED or its comments; the
\* content refiner a refined artifact; the lesson plan generator a plan and
\* the lesson plan refiner another
Texts(agent) ==
    CASE agent = "content_generator_agent" ->
             {BareObject, FencedObject, SpacedObject, ScalarText, Comments}
      [] agent = "content_reviewer_agent"  -> {APPROVED, Comments}
      [] agent = "content_refiner_agent"   -> {RefinedObject}
      [] agent = "lesson_plan_generator_agent" -> {BarePlan}
      [] agent = "lesson_plan_refiner_agent"   -> {FencedPlan}
      [] OTHER                             -> {Comments}

NoExtraction == [by |-> NONE, raised |-> FALSE, value |-> PyNone]

NoMemo == [set |-> FALSE, again |-> FALSE, events |-> <<>>, value |-> PyNone]

NoAnswer == [decision |-> <<>>, feedback |-> <<>>]

NoMessage == [role |-> "user", parts |-> <<>>]

NoToolResult == [status |-> NONE, feedback |-> <<>>, request |-> FALSE]

Collected_last(evs) == IF pc = "exec_run" THEN evs ELSE dummy_events

\* the list that collects the events of the running segment besides events
Collected(evs) == IF pc = "exec_run" THEN dummy_events \o evs ELSE dummy_events

\* the step that was running has completed its turn
TurnDone(agent, c) ==
    LET done == Complete([c EXCEPT !.runs[agent] = @ + 1], cfgMax)
    IN /\ ctx' = done
       /\ runState' = IF done.stack = <<>> THEN "done" ELSE "running"
       /\ toolResult' = NoToolResult

NoResume ==
    [attempted |-> FALSE, call_id |-> 0, invocation_id |-> NONE,
     pending_id |-> 0, pending_invocation |-> NONE]

Init ==
    /\ pipeline \in {"lesson", "content", "loop"}
    /\ cfgMax \in 1..MaxIterationsBound
    /\ cfgTools \in [1..2 -> {{}, {"exit_loop"}, {"exit_inner_loop"}}]
    /\ pipeline # "loop" => cfgMax = 1 /\ cfgTools = [i \in 1..2 |-> {}]
    /\ invocation \in InvocationIds
    /\ ctx = EmptyContext
    /\ runState = "idle"
    /\ pending = {}
    /\ resolved = {}
    /\ nextId = 1
    /\ rounds = 0
    /\ events = <<>>
    /\ dummy_events = <<>>
    /\ pc = "start"
    /\ approval_info = NoApproval
    /\ query_content = NoMessage
    /\ exec_invocation_id = NONE
    /\ lastResume = NoResume
    /\ toolResult = NoToolResult
    /\ lastError = NONE
    /\ answer = NoAnswer
    /\ stray = NONE
    /\ last_json = PyNone
    /\ last_approved = PyNone
    /\ final_output = ListValue(<<>>)
    /\ extracted = NoExtraction
    /\ memo = NoMemo
    /\ state = EmptyState
    /\ seen = NoView
    /\ user_response = SeedResponse
    /\ llm_request = json_dumps(SeedResponse)
    /\ llm_response = Proceed
    /\ NoCache

\* runner.run_async / run_debug is entered with the user's message
StartRun ==
    /\ UNCHANGED <<extractVars, storeVars, guardVars, cacheVars>>
    /\ pc = "start"
    /\ ctx' = Enter(RootOf(pipeline), EmptyContext, cfgMax)
    /\ runState' = "running"
    /\ pc' = CASE pipeline = "lesson"  -> "main_run"
               [] pipeline = "content" -> "content_run"
               [] pipeline = "loop"    -> "loop_run"
    /\ UNCHANGED <<pipeline, cfgMax, cfgTools, invocation, pending, resolved, nextId,
                   rounds, events, dummy_events, approval_info, query_content,
                   exec_invocation_id, lastResume, toolResult, lastError, answer, stray>>

\* the agent's model answers with text
AgentText ==
    /\ UNCHANGED <<extractVars, guardVars, cacheVars>>
    /\ runState = "running"
    /\ LET agent == CurrentAgent(ctx, cfgMax)
       IN \E text \in Texts(agent) :
            LET evs == <<Event(invocation, agent, TextPart(text))>>
            IN /\ events' = events \o evs
               /\ dummy_events' = Collected(evs)
               /\ state' = Write(state, OutputKey(agent), text)
               /\ seen' = [agent |-> agent, at |-> Len(events), state |-> state]
               /\ TurnDone(agent, ctx)
    /\ UNCHANGED <<pipeline, cfgMax, cfgTools, invocation, pending, resolved, nextId,
                   rounds, pc, approval_info, query_content, exec_invocation_id,
                   lastResume, lastError, answer, stray>>

\* bookkeeping: the execution in which a step first called exit_loop
Called(c, agent, tool) ==
    IF tool = "exit_loop" /\ c.exits[agent] = 0
    THEN [c EXCEPT !.exits[agent] = c.runs[agent] + 1]
    ELSE c

ExitTool(tool) == IF tool = "exit_loop" THEN exit_loop ELSE exit_inner_loop

\* the agent's model calls exit_loop or exit_inner_loop
AgentExit ==
    /\ UNCHANGED <<extractVars, guardVars, cacheVars>>
    /\ runState = "running"
    /\ LET agent == CurrentAgent(ctx, cfgMax)
       IN \E tool \in AgentTools(agent, cfgTools) \cap {"exit_loop", "exit_inner_loop"} :
            LET result == ExitTool(tool)
                evs == <<Event(invocation, agent, FunctionCallPart(tool, nextId)),
                         Event(invocation, agent,
                               FunctionResponsePart(tool, nextId, result.status, FALSE))>>
            IN /\ events' = events \o evs
               /\ dummy_events' = Collected(evs)
               /\ nextId' = nextId + 1
               /\ seen' = [agent |-> agent, at |-> Len(events), state |-> state]
               /\ TurnDone(agent, Called(IF result.escalate
                                         THEN [ctx EXCEPT !.signal = agent] ELSE ctx,
                                         agent, tool))
    /\ UNCHANGED <<pipeline, cfgMax, cfgTools, invocation, pending, resolved,
                   rounds, pc, approval_info, query_content, exec_invocation_id,
                   lastResume, lastError, answer, stray, state>>


\* the call of the agent's model fails: the exception leaves every composite
\* and the run
AgentFails ==
    /\ runState = "running"
    /\ runState' = "failed"
    /\ seen' = [agent |-> CurrentAgent(ctx, cfgMax), at |-> Len(events), state |-> state]
    /\ UNCHANGED <<extractVars, guardVars, cacheVars, state>>
    /\ UNCHANGED <<pipeline, cfgMax, cfgTools, invocation, ctx, pending, resolved, nextId,
                   rounds, events, dummy_events, pc, approval_info, query_content,
                   exec_invocation_id, lastResume, toolResult, lastError, answer, stray>>

RunStateAfterRequest_running == "running"

\* the run state the engine takes when a tool has requested confirmation
RunStateAfterRequest == "suspended"

\* the agent's model calls human_feedback_input, which finds no confirmation yet
\* and requests one (lines 139-148)
AgentRequest ==
    /\ UNCHANGED <<extractVars, guardVars, cacheVars>>
    /\ runState = "running"
    /\ rounds < MaxRounds
    /\ LET agent == CurrentAgent(ctx, cfgMax)
       IN /\ "human_feedback_input" \in AgentTools(agent, cfgTools)
          /\ \E human_input \in HumanInputArgs :
               LET result == human_feedback_input(NoConfirmation, human_input,
                                                  [role |-> "user", parts |-> <<>>])
                   evs == <<Event(invocation, agent,
                                  FunctionCallPart("human_feedback_input", nextId)),
                            Event(invocation, agent,
                                  FunctionCallPart("adk_request_confirmation", nextId + 1)),
                            Event(invocation, agent,
                                  FunctionResponsePart("human_feedback_input", nextId,
                                                       result.status, FALSE))>>
               IN /\ result.request
                  /\ events' = events \o evs
                  /\ dummy_events' = Collected(evs)
                  /\ pending' = pending \cup
                        {[call_id |-> nextId + 1, invocation_id |-> invocation,
                          tool_call_id |-> nextId, human_input |-> human_input,
                          agent |-> agent]}
                  /\ toolResult' = result
                  /\ seen' = [agent |-> agent, at |-> Len(events), state |-> state]
    /\ nextId' = nextId + 2
    /\ rounds' = rounds + 1
    /\ runState' = RunStateAfterRequest
    /\ UNCHANGED <<pipeline, cfgMax, cfgTools, invocation, ctx, resolved, pc,
                   approval_info, query_content, exec_invocation_id, lastResume,
                   lastError, answer, stray, state>>

(***************************************************************************)
(* The engine's resume: run_async(new_message, invocation_id) of a         *)
(* suspended invocation.  `collected` is the caller's list so far.         *)
(***************************************************************************)
Resume_accepts_any_id(message, invocation_id, collected) ==
    LET fr == message.parts[1]
        matches == pending
    IN IF matches # {}
       THEN LET p == CHOOSE q \in matches : TRUE
                result == human_feedback_input(ToolConfirmation(fr.confirmed),
                                               p.human_input, message)
                evs == <<Event(invocation_id, p.agent,
                               FunctionResponsePart("human_feedback_input", p.tool_call_id,
                                                    result.status, FALSE))>>
            IN /\ events' = events \o evs
               /\ dummy_events' = collected \o evs
               /\ pending' = pending \ {p}
               /\ resolved' = resolved \cup {p.call_id}
               /\ runState' = "running"
               /\ toolResult' = result
               /\ lastError' = NONE
       ELSE /\ lastError' = IF pending # {} THEN "ConfirmationMismatchError" ELSE NONE
            /\ dummy_events' = collected
            /\ UNCHANGED <<events, pending, resolved, runState, toolResult>>

Resume_replays(message, invocation_id, collected) ==
    LET fr == message.parts[1]
        matches == {p \in pending : p.call_id = fr.id /\ p.invocation_id = invocation_id}
    IN IF matches # {}
       THEN LET p == CHOOSE q \in matches : TRUE
                result == human_feedback_input(ToolConfirmation(fr.confirmed),
                                               p.human_input, message)
                evs == <<Event(invocation_id, p.agent,
                               FunctionResponsePart("human_feedback_input", p.tool_call_id,
                                                    result.status, FALSE))>>
            IN /\ events' = events \o evs
               /\ dummy_events' = collected \o evs
               /\ pending' = pending \ {p}
               /\ resolved' = resolved \cup {p.call_id}
               /\ runState' = "running"
               /\ toolResult' = result
               /\ lastError' = NONE
       ELSE IF fr.id \in resolved
       THEN /\ events' = Append(events, Event(invocation_id, "human_feedback_agent",
                                FunctionResponsePart("human_feedback_input", fr.id,
                                                     "approved", FALSE)))
            /\ dummy_events' = collected
            /\ lastError' = NONE
            /\ UNCHANGED <<pending, resolved, runState, toolResult>>
       ELSE /\ lastError' = IF pending # {} THEN "ConfirmationMismatchError" ELSE NONE
            /\ dummy_events' = collected
            /\ UNCHANGED <<events, pending, resolved, runState, toolResult>>

Resume(message, invocation_id, collected) ==
    LET fr == message.parts[1]
        matches == {p \in pending : p.call_id = fr.id /\ p.invocation_id = invocation_id}
    IN IF matches # {}
       THEN LET p == CHOOSE q \in matches : TRUE
                result == human_feedback_input(ToolConfirmation(fr.confirmed),
                                               p.human_input, message)
                evs == <<Event(invocation_id, p.agent,
                               FunctionResponsePart("human_feedback_input", p.tool_call_id,
                                                    result.status, FALSE))>>
            IN /\ events' = events \o evs
               /\ dummy_events' = collected \o evs
               /\ pending' = pending \ {p}
               /\ resolved' = resolved \cup {p.call_id}
               /\ runState' = "running"
               /\ toolResult' = result
               /\ lastError' = NONE
       ELSE /\ lastError' = IF pending # {} THEN "ConfirmationMismatchError" ELSE NONE
            /\ dummy_events' = collected
            /\ UNCHANGED <<events, pending, resolved, runState, toolResult>>

\* what a resume attempt meets: the open confirmation, if there is one
Met(message, invocation_id) ==
    LET open == IF pending = {} THEN [call_id |-> 0, invocation_id |-> NONE]
                ELSE CHOOSE p \in pending : TRUE
    IN [attempted |-> TRUE, call_id |-> message.parts[1].id,
        invocation_id |-> invocation_id,
        pending_id |-> open.call_id, pending_invocation |-> open.invocation_id]

\* ai_executor is entered (lines 634-645): run_async takes the message and a
\* resumed segment starts, or ai_executor returns at once
ExecutorEnter ==
    /\ UNCHANGED <<extractVars, storeVars, guardVars, cacheVars>>
    /\ pc = "exec_enter"
    /\ stray' = NONE
    /\ answer' = NoAnswer
    /\ query_content' = NoMessage
    /\ IF exec_invocation_id # NONE
       THEN /\ Resume(query_content, exec_invocation_id, <<>>)
            /\ lastResume' = Met(query_content, exec_invocation_id)
            /\ pc' = "exec_run"
            /\ UNCHANGED exec_invocation_id
       ELSE /\ pc' = "main_extract"
            /\ dummy_events' = <<>>
            /\ exec_invocation_id' = NONE
            /\ UNCHANGED <<events, pending, resolved, runState, toolResult, lastError,
                           lastResume>>
    /\ UNCHANGED <<pipeline, cfgMax, cfgTools, invocation, ctx, nextId, rounds,
                   approval_info>>

\* the call ai_executor(runner, user_id, session_id, query_content, invocation_id)
ai_executor(message, invocation_id) ==
    /\ query_content' = message
    /\ exec_invocation_id' = invocation_id
    /\ pc' = "exec_enter"

\* the invocation id main passes to ai_executor (line 960)
MainInvocationId == approval_info.invocation_id

\* the invocation id ai_executor passes to itself (line 668)
RecursiveInvocationId_session == session_id

RecursiveInvocationId == exec_invocation_id

\* main, line 938: the first segment has ended
MainCheckApproval ==
    /\ UNCHANGED <<extractVars, storeVars, guardVars, cacheVars>>
    /\ pc = "main_run"
    /\ runState \in {"suspended", "done"}
    /\ approval_info' = check_for_approval(events)
    /\ pc' = IF approval_info'.found THEN "main_prompt" ELSE "main_extract"
    /\ UNCHANGED <<pipeline, cfgMax, cfgTools, invocation, ctx, runState, pending,
                   resolved, nextId, rounds, events, dummy_events, query_content,
                   exec_invocation_id, lastResume, toolResult, lastError, answer, stray>>

\* main, lines 940-961: the human answers and ai_executor is called
MainApprove ==
    /\ UNCHANGED <<extractVars, storeVars, guardVars, cacheVars>>
    /\ pc = "main_prompt"
    /\ \E raw \in DecisionInputs, typed \in FeedbackInputs :
         LET approved_bool == ApprovedInput(raw)
             feedback_text == Strip(typed)
             message == create_approval_response(
                            approval_info,
                            [status |-> approved_bool, feedback |-> feedback_text])
         IN /\ ai_executor(message, MainInvocationId)
            /\ answer' = [decision |-> raw, feedback |-> typed]
    /\ UNCHANGED <<pipeline, cfgMax, cfgTools, invocation, ctx, runState, pending,
                   resolved, nextId, rounds, events, dummy_events, approval_info,
                   lastResume, toolResult, lastError, stray>>

ExecCheckApproval_all_events ==
    /\ UNCHANGED <<extractVars, storeVars, guardVars, cacheVars>>
    /\ pc = "exec_run"
    /\ runState \in {"suspended", "done"}
    /\ approval_info' = check_for_approval(events)
    /\ IF approval_info'.found
       THEN /\ pc' = "exec_prompt"
            /\ UNCHANGED <<dummy_events, query_content, exec_invocation_id>>
       ELSE /\ pc' = "main_extract"
            /\ dummy_events' = <<>>
            /\ query_content' = NoMessage
            /\ exec_invocation_id' = NONE
    /\ UNCHANGED <<pipeline, cfgMax, cfgTools, invocation, ctx, runState, pending,
                   resolved, nextId, rounds, events, lastResume, toolResult,
                   lastError, answer, stray>>

\* ai_executor, lines 647-649 and 669-670: the resumed segment has ended; when
\* no new request is found every call of ai_executor returns, and its locals go
ExecCheckApproval ==
    /\ UNCHANGED <<extractVars, storeVars, guardVars, cacheVars>>
    /\ pc = "exec_run"
    /\ runState \in {"suspended", "done"}
    /\ approval_info' = check_for_approval(dummy_events)
    /\ IF approval_info'.found
       THEN /\ pc' = "exec_prompt"
            /\ UNCHANGED <<dummy_events, query_content, exec_invocation_id>>
       ELSE /\ pc' = "main_extract"
            /\ dummy_events' = <<>>
            /\ query_content' = NoMessage
            /\ exec_invocation_id' = NONE
    /\ UNCHANGED <<pipeline, cfgMax, cfgTools, invocation, ctx, runState, pending,
                   resolved, nextId, rounds, events, lastResume, toolResult,
                   lastError, answer, stray>>

\* ai_executor, lines 650-668: the human answers and ai_executor calls itself
ExecApprove ==
    /\ UNCHANGED <<extractVars, storeVars, guardVars, cacheVars>>
    /\ pc = "exec_prompt"
    /\ \E raw \in DecisionInputs, typed \in FeedbackInputs :
         LET approved_bool == ApprovedInput(raw)
             feedback_text == Strip(typed)
             message == create_approval_response(
                            approval_info,
                            [status |-> approved_bool, feedback |-> feedback_text])
         IN /\ ai_executor(message, RecursiveInvocationId)
            /\ answer' = [decision |-> raw, feedback |-> typed]
    /\ UNCHANGED <<pipeline, cfgMax, cfgTools, invocation, ctx, runState, pending,
                   resolved, nextId, rounds, events, dummy_events, approval_info,
                   lastResume, toolResult, lastError, stray>>

(***************************************************************************)
(* Resume attempts that main's flow never makes itself: a response whose   *)
(* call id is not the open confirmation's, and the last response once more.*)
(***************************************************************************)
MismatchedResume ==
    /\ UNCHANGED <<extractVars, storeVars, guardVars, cacheVars>>
    /\ runState = "suspended"
    /\ pc \in {"main_prompt", "exec_prompt"}
    /\ \E c \in resolved \cup {p.tool_call_id : p \in pending}, confirmed \in BOOLEAN :
         /\ \A p \in pending : p.call_id # c
         /\ Resume(create_approval_response(
                       [found |-> TRUE, approval_id |-> c, invocation_id |-> invocation],
                       [status |-> confirmed, feedback |-> <<>>]),
                   invocation, dummy_events)
    /\ stray' = "mismatch"
    /\ UNCHANGED <<pipeline, cfgMax, cfgTools, invocation, ctx, nextId, rounds, pc,
                   approval_info, query_content, exec_invocation_id, lastResume,
                   answer>>

ReplayedResume ==
    /\ UNCHANGED <<extractVars, storeVars, guardVars, cacheVars>>
    /\ runState = "done"
    /\ pc = "main_extract"
    /\ \E c \in resolved, confirmed \in BOOLEAN :
         Resume(create_approval_response(
                    [found |-> TRUE, approval_id |-> c, invocation_id |-> invocation],
                    [status |-> confirmed, feedback |-> <<>>]),
                invocation, dummy_events)
    /\ stray' = "replay"
    /\ UNCHANGED <<pipeline, cfgMax, cfgTools, invocation, ctx, nextId, rounds, pc,
                   approval_info, query_content, exec_invocation_id, lastResume,
                   answer>>

(***************************************************************************)
(* Result extraction: the loops at the end of main and of                  *)
(* content_generator, and extract_latest_output called on a list of events.*)
(***************************************************************************)
\* everything of the run but the list of events and the position
runVars == <<pipeline, cfgMax, cfgTools, invocation, ctx, runState, pending, resolved,
             nextId, rounds, dummy_events, approval_info, query_content,
             exec_invocation_id, lastResume, toolResult, lastError, answer, stray,
             state, seen, user_response, llm_request, llm_response>>

LeftoverLocals == [last_json |-> last_json, last_approved |-> last_approved]

\* lines 313-314: last_json = None, last_approved = None
InitialLocals == [last_json |-> PyNone, last_approved |-> PyNone]

\* a call extract_latest_output(events), lines 305-359
extract_latest_output ==
    /\ pc = "extract"
    /\ LET acc == ScanEvents(InitialLocals, events)
       IN /\ last_json' = acc.last_json
          /\ last_approved' = acc.last_approved
          /\ extracted' = [by |-> "extract_latest_output", raised |-> FALSE,
                           value |-> Returned(acc)]
          /\ memo' = IF memo.set THEN [memo EXCEPT !.again = @ \/ events # memo.events]
                     ELSE [set |-> TRUE, again |-> FALSE, events |-> events,
                           value |-> Returned(acc)]
    /\ UNCHANGED <<runVars, cacheVars, events, pc, final_output>>

\* main, lines 963-978: the plan is looked for in the events of the run
MainExtract ==
    /\ pc = "main_extract"
    /\ final_output' = LessonEvents(ListValue(<<>>), events)
    /\ extracted' = [by |-> "main", raised |-> FALSE, value |-> final_output']
    /\ pc' = "main_done"
    /\ UNCHANGED <<runVars, cacheVars, events, last_json, last_approved, memo>>

\* content_generator, lines 597-621: the content is looked for in the events
\* run_debug returned; an exception raised in the loop ends content_generator
ContentExtract ==
    /\ pc = "content_run"
    /\ runState = "done"
    /\ LET out == ContentEvents(ListValue(<<>>), events)
       IN /\ final_output' = out.final_output
          /\ extracted' = [by |-> "content_generator", raised |-> out.raised,
                           value |-> IF out.raised THEN PyNone ELSE out.final_output]
          /\ pc' = IF out.raised THEN "content_raised" ELSE "content_done"
    /\ UNCHANGED <<runVars, cacheVars, events, last_json, last_approved, memo>>

Next ==
    \/ StartRun
    \/ AgentText
    \/ AgentExit
    \/ AgentRequest
    \/ AgentFails
    \/ MainCheckApproval
    \/ MainApprove
    \/ ExecutorEnter
    \/ ExecCheckApproval
    \/ ExecApprove
    \/ MismatchedResume
    \/ ReplayedResume
    \/ MainExtract
    \/ ContentExtract

Spec == Init /\ [][Next]_vars

(***************************************************************************)
(* The extractions on lists of events given from outside: every list of    *)
(* at most MaxTranscriptLen events, each with one part or none.            *)
(***************************************************************************)
TranscriptEvents ==
    {Event("e-1", "agent", TextPart(t)) : t \in AnswerTexts}
    \cup {Event("e-1", "agent", FunctionResponsePart("human_feedback_input", 1, st, FALSE)) :
            st \in {"approved", "pending", "rejected"}}
    \cup {[invocation_id |-> "e-1", author |-> "agent", parts |-> <<>>]}

Transcripts == UNION {[1..n -> TranscriptEvents] : n \in 0..MaxTranscriptLen}

\* lists that another call of extract_latest_output may be given in between
OtherTranscripts ==
    {<<>>, <<Event("e-1", "agent", TextPart(FencedPlan))>>,
     <<Event("e-1", "agent", TextPart(ApprovedText))>>}

ExtractInit ==
    /\ events \in Transcripts
    /\ pc \in {"extract", "main_extract", "content_run"}
    /\ pipeline = IF pc = "content_run" THEN "content" ELSE "lesson"
    /\ cfgMax = 1
    /\ cfgTools = [i \in 1..2 |-> {}]
    /\ invocation = "e-1"
    /\ ctx = EmptyContext
    /\ runState = "done"
    /\ pending = {}
    /\ resolved = {}
    /\ nextId = 1
    /\ rounds = 0
    /\ dummy_events = <<>>
    /\ approval_info = NoApproval
    /\ query_content = NoMessage
    /\ exec_invocation_id = NONE
    /\ lastResume = NoResume
    /\ toolResult = NoToolResult
    /\ lastError = NONE
    /\ answer = NoAnswer
    /\ stray = NONE
    /\ last_json = PyNone
    /\ last_approved = PyNone
    /\ final_output = ListValue(<<>>)
    /\ extracted = NoExtraction
    /\ memo = NoMemo
    /\ state = EmptyState
    /\ seen = NoView
    /\ user_response = SeedResponse
    /\ llm_request = json_dumps(SeedResponse)
    /\ llm_response = Proceed
    /\ NoCache

\* the next call of extract_latest_output is given another list
NextTranscript ==
    /\ pc = "extract"
    /\ memo.set
    /\ events' \in (OtherTranscripts \cup {memo.events}) \ {events}
    /\ extracted' = NoExtraction
    /\ UNCHANGED <<runVars, cacheVars, pc, last_json, last_approved, final_output, memo>>

ExtractNext ==
    \/ extract_latest_output
    \/ MainExtract
    \/ ContentExtract
    \/ NextTranscript

ExtractSpec == ExtractInit /\ [][ExtractNext]_vars

(***************************************************************************)
(* The guardrail on every record the user may have typed.                  *)
(***************************************************************************)
GuardInit ==
    /\ user_response \in UserResponses
    /\ llm_request = json_dumps(user_response)
    /\ llm_response = Proceed
    /\ NoCache
    /\ pc = "callback"
    /\ pipeline = "lesson"
    /\ cfgMax = 1
    /\ cfgTools = [i \in 1..2 |-> {}]
    /\ invocation = "e-1"
    /\ ctx = EmptyContext
    /\ runState = "running"
    /\ pending = {}
    /\ resolved = {}
    /\ nextId = 1
    /\ rounds = 0
    /\ events = <<>>
    /\ dummy_events = <<>>
    /\ approval_info = NoApproval
    /\ query_content = NoMessage
    /\ exec_invocation_id = NONE
    /\ lastResume = NoResume
    /\ toolResult = NoToolResult
    /\ lastError = NONE
    /\ answer = NoAnswer
    /\ stray = NONE
    /\ last_json = PyNone
    /\ last_approved = PyNone
    /\ final_output = ListValue(<<>>)
    /\ extracted = NoExtraction
    /\ memo = NoMemo
    /\ state = EmptyState
    /\ seen = NoView

\* the callback runs before the generator's model call and leaves the request
\* as it is; a response it returns takes the place of the model's
BeforeModelCallback ==
    /\ pc = "callback"
    /\ llm_response' = lesson_before_model_callback(llm_request)
    /\ pc' = IF llm_response'.raised THEN "raised"
             ELSE IF llm_response'.rejected THEN "rejected" ELSE "model_call"
    /\ UNCHANGED <<pipeline, cfgMax, cfgTools, invocation, ctx, runState, pending, resolved,
                   nextId, rounds, events, dummy_events, approval_info, query_content,
                   exec_invocation_id, lastResume, toolResult, lastError, answer, stray,
                   extractVars, storeVars, user_response, llm_request, cacheVars>>

GuardNext == BeforeModelCallback

(***************************************************************************)
(* The guardrail on every request, a record of user_input or not.          *)
(***************************************************************************)
RequestInit ==
    /\ user_response = SeedResponse
    /\ llm_request \in Requests
    /\ llm_response = Proceed
    /\ NoCache
    /\ pc = "callback"
    /\ pipeline = "lesson"
    /\ cfgMax = 1
    /\ cfgTools = [i \in 1..2 |-> {}]
    /\ invocation = "e-1"
    /\ ctx = EmptyContext
    /\ runState = "running"
    /\ pending = {}
    /\ resolved = {}
    /\ nextId = 1
    /\ rounds = 0
    /\ events = <<>>
    /\ dummy_events = <<>>
    /\ approval_info = NoApproval
    /\ query_content = NoMessage
    /\ exec_invocation_id = NONE
    /\ lastResume = NoResume
    /\ toolResult = NoToolResult
    /\ lastError = NONE
    /\ answer = NoAnswer
    /\ stray = NONE
    /\ last_json = PyNone
    /\ last_approved = PyNone
    /\ final_output = ListValue(<<>>)
    /\ extracted = NoExtraction
    /\ memo = NoMemo
    /\ state = EmptyState
    /\ seen = NoView

RequestNext == BeforeModelCallback

RequestSpec == RequestInit /\ [][RequestNext]_vars

GuardSpec == GuardInit /\ [][GuardNext]_vars

(***************************************************************************)
(* The result cache: main's loop over the concepts of the plan, lines      *)
(* 980-997, after the plan was extracted from the events of the run.       *)
(***************************************************************************)
\* calls of content_generator per concept
MaxGenerations == 2

ExitText == <<"E", "X", "I", "T">>

TwoDayPlan ==
    <<"[", Quote, "D", "a", "y", " ", "1", Quote, ",", Quote, "D", "a", "y", " ", "2",
      Quote, "]">>

\* a plan that names one concept twice
RepeatedDayPlan ==
    <<"[", Quote, "D", "a", "y", " ", "1", Quote, ",", Quote, "D", "a", "y", " ", "2",
      Quote, ",", Quote, "D", "a", "y", " ", "1", Quote, "]">>

PlanTexts == {BarePlan, TwoDayPlan, RepeatedDayPlan}

\* bool(value) of a list, a string or None
Truth(value) ==
    CASE value.type = "array"  -> value.items # <<>>
      [] value.type = "string" -> value.text # <<>>
      [] OTHER                 -> FALSE

\* map.get(key, default)
Get(map, key, default) == IF key \in DOMAIN map THEN map[key] ELSE default

\* map[key] = value
Put(map, key, value) ==
    [k \in DOMAIN map \cup {key} |-> IF k = key THEN value ELSE map[k]]

\* lines 80 and 90: the number typed is one user_concept_selection returns for
Accepted(available_topics, n) == n < 0 \/ (0 < n /\ n <= Len(available_topics.items))

\* lines 71-96, for an accepted number; any other input is asked for again
user_concept_selection(available_topics, n) ==
    IF n < 0 THEN StringValue(ExitText) ELSE available_topics.items[n]

Cached_never(map, concept) == FALSE

\* line 989: content_map.get(concept_tobe_used, "") is true
Cached(map, concept) == Truth(Get(map, concept, StringValue(<<>>)))

\* how often content_generator was called for the concept
Runs(counts, concept) == Get(counts, concept, 0)

\* the events run_debug returns for the content pipeline: the generator's
\* text, then the reviewer's APPROVED, or its comments and the refiner's text
ContentRuns ==
    {<<Event("e-1", "content_generator_agent", TextPart(t)),
       Event("e-1", "content_reviewer_agent", TextPart(APPROVED))>> :
        t \in Texts("content_generator_agent")}
    \cup {<<Event("e-1", "content_generator_agent", TextPart(t)),
            Event("e-1", "content_reviewer_agent", TextPart(Comments)),
            Event("e-1", "content_refiner_agent", TextPart(r))>> :
            t \in Texts("content_generator_agent"), r \in Texts("content_refiner_agent")}

\* lines 595-621: what content_generator makes of the events of its run
content_generator(evs) == ContentEvents(ListValue(<<>>), evs)

\* main has run the lesson pipeline and is about to look for the plan
CacheInit ==
    /\ events \in {<<Event("e-1", "lesson_plan_generator_agent", TextPart(t))>> :
                     t \in PlanTexts}
    /\ pc = "main_extract"
    /\ pipeline = "lesson"
    /\ cfgMax = 1
    /\ cfgTools = [i \in 1..2 |-> {}]
    /\ invocation = "e-1"
    /\ ctx = EmptyContext
    /\ runState = "done"
    /\ pending = {}
    /\ resolved = {}
    /\ nextId = 1
    /\ rounds = 0
    /\ dummy_events = <<>>
    /\ approval_info = NoApproval
    /\ query_content = NoMessage
    /\ exec_invocation_id = NONE
    /\ lastResume = NoResume
    /\ toolResult = NoToolResult
    /\ lastError = NONE
    /\ answer = NoAnswer
    /\ stray = NONE
    /\ last_json = PyNone
    /\ last_approved = PyNone
    /\ final_output = ListValue(<<>>)
    /\ extracted = NoExtraction
    /\ memo = NoMemo
    /\ state = EmptyState
    /\ seen = NoView
    /\ user_response = SeedResponse
    /\ llm_request = json_dumps(SeedResponse)
    /\ llm_response = Proceed
    /\ NoCache

\* lines 985-993: a concept is selected; EXIT leaves the loop, a concept with
\* content in content_map has it printed, any other goes to content_generator
SelectConcept ==
    /\ pc = "main_done"
    /\ Truth(final_output)
    /\ \E n \in (-1)..(Len(final_output.items) + 1) :
          /\ Accepted(final_output, n)
          /\ concept_tobe_used' = user_concept_selection(final_output, n)
          /\ IF concept_tobe_used' = StringValue(ExitText)
             THEN pc' = "main_end" /\ shown' = PyNone
             ELSE IF Cached(content_map, concept_tobe_used')
             THEN /\ pc' = "main_done"
                  /\ shown' = Get(content_map, concept_tobe_used', StringValue(<<>>))
             ELSE /\ Runs(generated, concept_tobe_used') < MaxGenerations
                  /\ pc' = "generate"
                  /\ shown' = PyNone
    /\ UNCHANGED <<runVars, events, extractVars, content_map, generated>>

\* lines 995-997: content_generator runs the content pipeline and what it
\* returns is stored under the concept; what it raises ends main
StoreContent ==
    /\ pc = "generate"
    /\ \E evs \in ContentRuns :
          /\ generated' = Put(generated, concept_tobe_used,
                              Runs(generated, concept_tobe_used) + 1)
          /\ IF content_generator(evs).raised
             THEN pc' = "content_raised" /\ UNCHANGED content_map
             ELSE /\ pc' = "main_done"
                  /\ content_map' = Put(content_map, concept_tobe_used,
                                        content_generator(evs).final_output)
    /\ UNCHANGED <<runVars, events, extractVars, concept_tobe_used, shown>>

CacheNext ==
    \/ MainExtract
    \/ SelectConcept
    \/ StoreContent

CacheSpec == CacheInit /\ [][CacheNext]_vars

(***************************************************************************)
(* Properties.                                                             *)
(***************************************************************************)
Terminal == {"ESCALATED", "ITERATIONS_EXHAUSTED"}

LeafSteps(l) == {a \in LeafAgents : a \in Range(Node(l, cfgMax).sub_agents)}

FirstStep(l) == Node(l, cfgMax).sub_agents[1]

CalledTool(agent, tool) ==
    \E i \in 1..Len(events) :
        /\ events[i].author = agent
        /\ events[i].parts[1].kind = "function_call"
        /\ events[i].parts[1].name = tool

\* C1: a loop whose first step calls exit_loop in its first execution is
\* ESCALATED in iteration 1, whatever its max_iterations: the first step has run
\* once and no other step of the loop has run at all.
C1_FirstStepEscalation ==
    \A l \in Loops :
        (FirstStep(l) \in LeafAgents /\ ctx.exits[FirstStep(l)] = 1)
        => /\ ctx.status[l] = "ESCALATED"
           /\ ctx.endIter[l] = 1
           /\ ctx.raiser[l] = FirstStep(l)
           /\ ctx.runs[FirstStep(l)] = 1
           /\ \A a \in LeafSteps(l) \ {FirstStep(l)} : ctx.runs[a] = 0
           /\ \A f \in Range(ctx.stack) : f.node # l

C1_Witness ==
    /\ pipeline = "loop"
    /\ cfgMax = MaxIterationsBound
    /\ cfgTools[2] = {"exit_loop"}
    /\ ctx.exits["first_step"] = 1
    /\ ctx.status["ParametricLoop"] = "ESCALATED"
    /\ runState = "done"

\* C2: a loop that has ended and none of whose steps called exit_loop is
\* ITERATIONS_EXHAUSTED after max_iterations iterations in which each step ran
\* exactly max_iterations times; while it runs its steps run in declared order;
\* LessonRefinementLoop never ends ESCALATED and runs each of its steps once.
C2_ExhaustsAfterN ==
    /\ \A l \in Loops :
          LET n == Node(l, cfgMax).max_iterations
              steps == Node(l, cfgMax).sub_agents
          IN /\ (ctx.status[l] \in Terminal /\ \A a \in LeafSteps(l) : ctx.exits[a] = 0)
                => /\ ctx.status[l] = "ITERATIONS_EXHAUSTED"
                   /\ ctx.endIter[l] = n
                   /\ \A a \in LeafSteps(l) : ctx.runs[a] = n
             /\ (ctx.status[l] = "RUNNING" /\ steps[1] \in LeafAgents /\ steps[2] \in LeafAgents)
                => /\ ctx.runs[steps[1]] - ctx.runs[steps[2]] \in {0, 1}
                   /\ ctx.runs[steps[1]] <= n
    /\ ctx.status["LessonRefinementLoop"] # "ESCALATED"
    /\ ctx.status["LessonRefinementLoop"] = "ITERATIONS_EXHAUSTED"
       => /\ ctx.runs["lesson_plan_reviewer_agent"] = 1
          /\ ctx.runs["lesson_plan_refiner_agent"] = 1

C2_Witness ==
    /\ ctx.status["LessonRefinementLoop"] = "ITERATIONS_EXHAUSTED"
    /\ CalledTool("lesson_plan_refiner_agent", "exit_inner_loop")
    /\ ctx.status["HumanFeedbackLoop"] = "ITERATIONS_EXHAUSTED"
    /\ ctx.runs["human_feedback_agent"] = 5

Prompts == {"main_prompt", "exec_prompt"}

\* the run's position in the pipeline and the tool calls made so far
Progress == <<ctx, nextId, rounds>>

\* what the human typed at the approval prompt counts as an approval
TypedApproval == answer.decision \in {<<"y">>, <<" ", "Y", "E", "S", " ">>}

\* what the human typed at the feedback prompt is more than white space
TypedFeedback == answer.feedback \notin {<<>>, <<" ">>}

\* C4: when a tool has requested confirmation the run is suspended, the
\* caller's check records the call id and the invocation id of exactly that
\* request, and no step of the pipeline executes while the request is open.
C4_SuspendedUntilResponse ==
    [][/\ pending' # {} => runState' = "suspended"
       /\ pc' \in Prompts
          => /\ approval_info'.found
             /\ \E p \in pending' : /\ approval_info'.approval_id = p.call_id
                                    /\ approval_info'.invocation_id = p.invocation_id
       /\ pending # {} => UNCHANGED Progress]_vars

C4_Witness ==
    /\ pc = "exec_prompt"
    /\ runState = "suspended"
    /\ rounds = 2
    /\ \E p \in pending : approval_info.approval_id = p.call_id

\* C5: when the confirmation response is delivered the originating tool call
\* returns "approved" if the human confirmed and "rejected" if not, whatever
\* the decision and the feedback text were.
C5_ApprovalRoundTrip ==
    [][(pc = "exec_enter" /\ pending # {})
       => LET expected == IF TypedApproval THEN "approved" ELSE "rejected"
              p == CHOOSE q \in pending : TRUE
              last == events'[Len(events')].parts[1]
          IN /\ query_content.parts[1].confirmed = TypedApproval
             /\ toolResult'.status = expected
             /\ ~toolResult'.request
             /\ Len(events') = Len(events) + 1
             /\ last.kind = "function_response"
             /\ last.name = "human_feedback_input"
             /\ last.id = p.tool_call_id
             /\ last.status = expected
             /\ pending' = {}
             /\ runState' = "running"]_vars

C5_Witness ==
    /\ toolResult.status = "rejected"
    /\ toolResult.feedback = <<"a", Quote>>
    /\ runState = "running"
    /\ Cardinality(resolved) = 2

\* C6: a response whose call id is not the open confirmation's is refused with
\* ConfirmationMismatchError and changes nothing: the confirmation stays open,
\* the run stays suspended, and the response with the right call id that
\* follows resumes it.
C6_MismatchRefused ==
    [][/\ (runState = "suspended" /\ pc \in Prompts /\ pc' = pc)
          => /\ lastError' = "ConfirmationMismatchError"
             /\ UNCHANGED <<events, pending, resolved, runState, toolResult, ctx,
                            nextId, approval_info>>
       /\ (stray = "mismatch" /\ pc = "exec_enter")
          => /\ runState' = "running"
             /\ pending' = {}
             /\ lastError' = NONE]_vars

C6_Witness ==
    /\ stray = "mismatch"
    /\ lastError = "ConfirmationMismatchError"
    /\ pc = "exec_prompt"
    /\ runState = "suspended"
    /\ pending # {}

\* C7: every resume is made with the invocation id recorded with the open
\* confirmation, in main's first round and in ai_executor's later rounds alike.
C7_ResumeUsesRecordedInvocation ==
    /\ pc = "exec_enter"
       => \E p \in pending : /\ exec_invocation_id = p.invocation_id
                             /\ query_content.parts[1].id = p.call_id
    /\ lastResume.attempted
       => /\ lastResume.pending_invocation # NONE
          /\ lastResume.invocation_id = lastResume.pending_invocation
          /\ lastResume.call_id = lastResume.pending_id

C7_Witness ==
    /\ lastResume.attempted
    /\ lastResume.call_id = 4
    /\ Cardinality(resolved) = 2
    /\ pending = {}

\* C8: delivering a response once more to an invocation whose confirmation has
\* been answered is a no-op: no event, no state change, no step executed.
C8_ReplayIsNoOp ==
    [][(pc = "main_extract" /\ resolved # {} /\ pc' = pc)
       => UNCHANGED <<events, pending, resolved, runState, toolResult, ctx, nextId,
                      lastError, approval_info, dummy_events>>]_vars

C8_Witness ==
    /\ stray = "replay"
    /\ runState = "done"
    /\ resolved # {}
    /\ pending = {}

\* the confirmation requests in the transcript that have not been answered
OpenRequests ==
    {i \in 1..Len(events) : /\ IsConfirmationCall(events[i].parts[1])
                            /\ events[i].parts[1].id \notin resolved}

\* C9: at most one confirmation is open at any time.
C9_AtMostOnePending ==
    /\ Cardinality(pending) <= 1
    /\ Cardinality(OpenRequests) = Cardinality(pending)

C9_Witness ==
    /\ Cardinality(pending) = 1
    /\ Cardinality(resolved) = 1
    /\ Cardinality(OpenRequests) = 1

\* the text json.dumps gives for the feedback a"
QuotedFeedbackText ==
    <<"{", Quote, "h", "u", "m", "a", "n", "_", "i", "n", "p", "u", "t", Quote, ":",
      " ", Quote, "a", Backslash, Quote, Quote, "}">>

\* C10: the resume message is one FunctionResponse part that carries the open
\* confirmation's call id and the decision, followed by one Text part with the
\* serialized {human_input: feedback} exactly when the feedback is non-empty.
C10_ResumeMessageShape ==
    pc = "exec_enter"
    => LET parts == query_content.parts
       IN /\ query_content.role = "user"
          /\ Len(parts) = IF TypedFeedback THEN 2 ELSE 1
          /\ parts[1].kind = "function_response"
          /\ parts[1].name = "adk_request_confirmation"
          /\ parts[1].confirmed = TypedApproval
          /\ \E p \in pending : parts[1].id = p.call_id
          /\ TypedFeedback => /\ parts[2].kind = "text"
                              /\ parts[2].text = QuotedFeedbackText

C10_Witness ==
    /\ pc = "exec_enter"
    /\ Len(query_content.parts) = 2
    /\ ~query_content.parts[1].confirmed
    /\ rounds = 2

(***************************************************************************)
(* The extractor as section 4.5 of the specification states it.            *)
(***************************************************************************)
\* the parts of a list of events, in order
RECURSIVE PartsOf(_)
PartsOf(evs) == IF evs = <<>> THEN <<>> ELSE Head(evs).parts \o PartsOf(Tail(evs))

\* a text without the white space and the markdown fence around it
Unfenced(text) ==
    LET t == Strip(text)
        head == IF StartsWithAt(t, 1, JsonFenceMark) THEN Len(JsonFenceMark)
                ELSE IF StartsWithAt(t, 1, FenceMark) THEN Len(FenceMark) ELSE 0
        rest == SubSeq(t, head + 1, Len(t))
        n == Len(rest) - Len(FenceMark)
    IN Strip(IF n >= 0 /\ StartsWithAt(rest, n + 1, FenceMark) THEN SubSeq(rest, 1, n)
             ELSE rest)

\* rule 1: the part is a JSON candidate
IsCandidate(part) == part.kind = "text" /\ json_loads(Unfenced(part.text)).ok

CandidateValue(part) == json_loads(Unfenced(part.text)).value

\* rules 2 and 3: the part records the fallback signal
IsFallback(part) ==
    \/ part.kind = "text" /\ Strip(part.text) = APPROVED
    \/ part.kind = "function_response" /\ part.status = "approved"

\* the last part of parts that satisfies Test, 0 when there is none
LastWhere(parts, Test(_)) ==
    LET hits == {i \in 1..Len(parts) : Test(parts[i])}
    IN IF hits = {} THEN 0 ELSE CHOOSE i \in hits : \A j \in hits : j <= i

UniversalRan == extracted.by = "extract_latest_output"

\* C11 as claimed: the result is the most recent JSON candidate if there is
\* one, wherever the marker stands and whatever fails to parse later; else the
\* marker APPROVED if the fallback signal was seen; else nothing.
C11_Claimed ==
    UniversalRan
    => LET parts == PartsOf(events)
           last == LastWhere(parts, IsCandidate)
       IN extracted.value =
             IF last # 0 THEN CandidateValue(parts[last])
             ELSE IF \E i \in 1..Len(parts) : IsFallback(parts[i])
             THEN StringValue(APPROVED)
             ELSE PyNone

\* C12 as claimed: every Text part that parses as JSON once white space and
\* fences are stripped is a candidate, bare JSON included, so the candidate kept
\* after the scan is the last of them.
C12_Claimed ==
    UniversalRan
    => LET parts == PartsOf(events)
           last == LastWhere(parts, IsCandidate)
       IN last # 0 => last_json = CandidateValue(parts[last])

IsPlanCandidate(part) == IsCandidate(part) /\ IsPlan(CandidateValue(part))

\* C13 as claimed: the plan main ends with is the most recent JSON candidate
\* that is an array of strings beginning with "Day "; candidates of another
\* shape never replace it.
C13_Claimed ==
    extracted.by = "main"
    => LET parts == PartsOf(events)
           last == LastWhere(parts, IsPlanCandidate)
       IN final_output = IF last # 0 THEN CandidateValue(parts[last]) ELSE ListValue(<<>>)

\* C14: after a scan the fallback signal is recorded exactly when some Text
\* part equals APPROVED once trimmed or some FunctionResponse has status
\* "approved"; the marker among other text and other statuses do not record it.
C14_FallbackSignal ==
    UniversalRan
    => /\ last_approved \in {PyNone, StringValue(APPROVED)}
       /\ last_approved # PyNone
          <=> \E i \in 1..Len(PartsOf(events)) : IsFallback(PartsOf(events)[i])

C14_Witness ==
    /\ UniversalRan
    /\ Len(events) = 2
    /\ events[1].parts = <<TextPart(ApprovedAmongText)>>
    /\ events[2].parts = <<FunctionResponsePart("human_feedback_input", 1, "approved", FALSE)>>
    /\ last_approved = StringValue(APPROVED)

\* C15: a call of the extractor leaves the list of events as it was, and its
\* result on a list is the result of the first call on that list, whatever
\* lists it was called on in between.
C15_PureFunction ==
    [][(pc = "extract" /\ extracted'.by = "extract_latest_output")
       => /\ events' = events
          /\ memo'.events = events' => extracted'.value = memo'.value]_vars

C15_Witness ==
    /\ UniversalRan
    /\ memo.again
    /\ events = memo.events
    /\ Len(events) = 2
    /\ extracted.value = StringValue(APPROVED)

\* C16 as claimed: no extraction raises, whatever the list of events holds.
C16_Claimed == ~extracted.raised

(***************************************************************************)
(* The content pipeline end to end, and the sequential composites.         *)
(***************************************************************************)
\* a text that is a content artifact: a JSON object with a title once white
\* space and fences are stripped
IsArtifact(text) ==
    LET r == json_loads(Unfenced(text))
    IN r.ok /\ r.value.type = "object" /\ TitleKey \in Range(r.value.keys)

\* the content run began: generator's output, APPROVED from the reviewer on its
\* first pass, and the refiner's call of exit_loop
ApprovedFirstPass ==
    /\ pipeline = "content"
    /\ Len(events) >= 3
    /\ events[1].author = "content_generator_agent"
    /\ events[1].parts[1].kind = "text"
    /\ events[2].author = "content_reviewer_agent"
    /\ events[2].parts[1].kind = "text"
    /\ Strip(events[2].parts[1].text) = APPROVED
    /\ events[3].author = "content_refiner_agent"
    /\ events[3].parts[1].kind = "function_call"
    /\ events[3].parts[1].name = "exit_loop"

\* C17: when the content generator has answered, the reviewer has answered
\* APPROVED on its first pass and the refiner has called exit_loop, the loop has
\* ended ESCALATED in iteration 1 and the run is over, the generator's output is
\* still what its output key holds, and if that output is a content artifact
\* the extraction of content_generator ends with it (trimmed) as final_output.
C17_ApprovedFirstPass ==
    ApprovedFirstPass
    => LET output == events[1].parts[1].text
       IN /\ ctx.status["ContentRefinementLoop"] = "ESCALATED"
          /\ ctx.endIter["ContentRefinementLoop"] = 1
          /\ runState = "done"
          /\ Len(events) = 4
          /\ state["generated_content"] = [set |-> TRUE, text |-> output]
          /\ pc \in {"content_done", "content_raised"} /\ IsArtifact(output)
             => /\ ~extracted.raised
                /\ final_output = ListValue(<<StringValue(Strip(output))>>)

C17_Witness ==
    /\ ApprovedFirstPass
    /\ pc = "content_done"
    /\ events[1].parts[1].text = SpacedObject
    /\ final_output = ListValue(<<StringValue(BareObject)>>)

\* the first step of the running sequential composite
Generator ==
    IF pipeline = "content" THEN "content_generator_agent" ELSE "lesson_plan_generator_agent"

\* the loop that is its second step
PipelineLoop == IF pipeline = "content" THEN "ContentRefinementLoop" ELSE "HumanFeedbackLoop"

\* the state that the writes of a list of events leave
RECURSIVE StoreOf(_)
StoreOf(evs) ==
    IF evs = <<>> THEN EmptyState
    ELSE LET e == evs[Len(evs)]
             before == StoreOf(Front(evs))
         IN IF e.parts # <<>> /\ e.parts[1].kind = "text"
            THEN [k \in StateKeys |->
                    IF k = OutputKey(e.author) THEN [set |-> TRUE, text |-> e.parts[1].text]
                    ELSE before[k]]
            ELSE before

\* C18: in the two sequential pipelines the generator runs once and first, the
\* loop only after it; the step taking a turn is given the state as the writes
\* of all earlier events left it, the generator's write included; and a run that
\* is done has run the generator once and the loop to its end (a run that
\* stopped before that has failed).
C18_SequentialOrder ==
    pipeline \in {"content", "lesson"}
    => /\ ctx.runs[Generator] <= 1
       /\ \A i \in 1..Len(events) : events[i].author = Generator <=> i = 1
       /\ ctx.status[PipelineLoop] # "IDLE" => ctx.runs[Generator] = 1
       /\ seen.state = StoreOf(SubSeq(events, 1, seen.at))
       /\ seen.agent \notin {NONE, Generator} => seen.state[OutputKey(Generator)].set
       /\ runState = "done"
          => /\ ctx.runs[Generator] = 1
             /\ ctx.status[PipelineLoop] \in {"ESCALATED", "ITERATIONS_EXHAUSTED"}
             /\ state = StoreOf(events)
       /\ (runState \notin {"idle", "running", "suspended"}
           /\ ctx.status[PipelineLoop] \notin {"ESCALATED", "ITERATIONS_EXHAUSTED"})
          => runState = "failed"

C18_Witness ==
    /\ pipeline = "content"
    /\ runState = "done"
    /\ ctx.endIter["ContentRefinementLoop"] = 2
    /\ seen.agent = "content_refiner_agent"
    /\ seen.state["generated_content"].text = RefinedObject
    /\ seen.state["reviewer_content"].text = APPROVED

(***************************************************************************)
(* The guardrail as section 4.6 of the specification states it.            *)
(***************************************************************************)
CallbackReturned == pc \in {"rejected", "model_call"}

\* C19 as claimed: the topic the user gave is rejected for its length exactly
\* when it has fewer than 3 or more than 200 characters, with one message for
\* too short and another for too long.
C19_Claimed ==
    CallbackReturned
    => /\ llm_response = LlmResponse(TooSmallMessage) <=> Len(user_response.topic) < 3
       /\ llm_response = LlmResponse(TooLongMessage) <=> Len(user_response.topic) > 200
       /\ TooSmallMessage # TooLongMessage

\* the six checks of section 4.6 on a record, in their order: TRUE where the
\* record fails the check
FailedChecks(record) ==
    <<Len(record.topic) < 3,
      Len(record.topic) > 200,
      ~ALLOWED_TOPIC_RE(record.topic),
      contains_blocked_keyword(record.topic),
      ~ALLOWED_EXPERIENCE_PATTERN(record.learner_profile),
      ~DurationPattern(record.duration)>>

CheckMessages ==
    <<TooSmallMessage, TooLongMessage, DisallowedMessage, NotPermittedMessage,
      ExperienceMessage, DurationMessage>>

\* C20 as claimed: the callback returns the message of the first check, in
\* the order of section 4.6, that the user's record fails, and nothing else; a
\* record that fails none is not rejected and the request is what it was.
C20_Claimed ==
    CallbackReturned
    => LET checks == FailedChecks(user_response)
           failed == {i \in 1..6 : checks[i]}
       IN IF failed = {}
          THEN llm_response = Proceed /\ llm_request = json_dumps(user_response)
          ELSE llm_response =
                  LlmResponse(CheckMessages[CHOOSE i \in failed : \A j \in failed : i <= j])

\* the topic has one of the denylisted keywords in it, in any letter case
HasKeyword(topic) ==
    \E kw \in BLOCKED_KEYWORDS :
        \E i \in 1..(Len(topic) - Len(kw) + 1) :
            \A k \in 1..Len(kw) : LowerChar(topic[i + k - 1]) = kw[k]

\* C21 as claimed: a topic with a denylisted keyword in it is rejected, and
\* a topic that passes the length and character checks and has no keyword in
\* it is not rejected as not permitted.
C21_Claimed ==
    CallbackReturned
    => /\ HasKeyword(user_response.topic) => llm_response.rejected
       /\ (/\ Len(user_response.topic) >= 3
           /\ Len(user_response.topic) <= 200
           /\ ALLOWED_TOPIC_RE(user_response.topic)
           /\ ~HasKeyword(user_response.topic))
          => llm_response # LlmResponse(NotPermittedMessage)

\* the characters section 4.6 lists: letters, digits, white space and the
\* punctuation - : , . & ( ) '
ListedCharacter(c) ==
    \/ \E i \in 1..Len(UpperCase) : c \in {UpperCase[i], LowerCase[i]}
    \/ c \in {"0", "1", "2", "3", "4", "5", "6", "7", "8", "9"}
    \/ c \in {" ", "\t", "\n", "\r"}
    \/ c \in {"-", ":", ",", ".", "&", "(", ")", "'"}

LengthOrCharacters ==
    {LlmResponse(TooSmallMessage), LlmResponse(TooLongMessage), LlmResponse(DisallowedMessage)}

\* C22 as claimed: a topic of listed characters is not rejected for its
\* characters, and a topic with any other character in it, an underscore for
\* one, is rejected by the character check or by a length check before it.
C22_Claimed ==
    CallbackReturned
    => IF \A i \in 1..Len(user_response.topic) : ListedCharacter(user_response.topic[i])
       THEN llm_response # LlmResponse(DisallowedMessage)
       ELSE llm_response \in LengthOrCharacters

\* C22, amended: the accepted characters are the listed ones and the
\* underscore.  A topic of accepted characters is never rejected for its
\* characters; a topic with any other character in it is rejected, by the
\* character check or by a length check before it.
C22_AllowedCharacters ==
    CallbackReturned
    => IF \A i \in 1..Len(user_response.topic) :
              ListedCharacter(user_response.topic[i]) \/ user_response.topic[i] = "_"
       THEN llm_response # LlmResponse(DisallowedMessage)
       ELSE llm_response \in LengthOrCharacters

\* a topic with an underscore in it has passed all six checks
C22_Witness ==
    /\ CallbackReturned
    /\ \E i \in 1..Len(user_response.topic) : user_response.topic[i] = "_"
    /\ llm_response = Proceed

\* an integer, then " year" or " years", and nothing else
IsExperience(text) ==
    \E d \in 1..Len(text) :
        /\ \A i \in 1..d : IsDigit(text[i])
        /\ SubSeq(text, d + 1, Len(text)) \in {<<" ", "y", "e", "a", "r">>,
                                                <<" ", "y", "e", "a", "r", "s">>}

\* C23 as claimed: a record whose learner_profile is not an integer followed
\* by " year" or " years", or whose duration is not one or more decimal
\* digits and nothing else, is rejected.
C23_Claimed ==
    CallbackReturned
    => /\ ~IsExperience(user_response.learner_profile) => llm_response.rejected
       /\ ~(/\ user_response.duration # <<>>
            /\ \A i \in 1..Len(user_response.duration) : IsDigit(user_response.duration[i]))
          => llm_response.rejected

\* C24 as claimed: whatever the request, the callback ends with a rejection
\* or a pass and never raises; after a rejection the model is not called.
C24_Claimed ==
    /\ ~llm_response.raised
    /\ pc \in {"callback", "rejected", "model_call"}
    /\ llm_response.rejected <=> pc = "rejected"

IsResumeResponse(event) ==
    /\ event.parts # <<>>
    /\ event.parts[1].kind = "function_response"
    /\ event.parts[1].name = "human_feedback_input"
    /\ event.parts[1].status \in {"approved", "rejected"}

\* where the last resumed segment starts in the transcript
SegmentStart(evs) ==
    CHOOSE k \in 1..Len(evs) :
        IsResumeResponse(evs[k]) /\ \A m \in (k + 1)..Len(evs) : ~IsResumeResponse(evs[m])

CallIds(evs) ==
    {evs[i].parts[1].id : i \in {j \in 1..Len(evs) : evs[j].parts[1].kind = "function_call"}}

\* C26: every step leaves the list events an extension of what it was; the
\* function calls a step appends have ids no earlier event has; and while a
\* resumed segment runs, its events, in the order produced and once each, are
\* the end of the list after all events of the earlier segments.
C26_AppendOnly ==
    [][/\ Len(events') >= Len(events)
       /\ SubSeq(events', 1, Len(events)) = events
       /\ LET new == SubSeq(events', Len(events) + 1, Len(events'))
          IN /\ CallIds(new) \cap CallIds(events) = {}
             /\ Cardinality(CallIds(new)) =
                   Cardinality({i \in 1..Len(new) : new[i].parts[1].kind = "function_call"})
       /\ pc' = "exec_run"
          => /\ dummy_events' # <<>>
             /\ dummy_events' = SubSeq(events', SegmentStart(events'), Len(events'))]_vars

\* the second resumed segment has ended, with events of its own after the
\* events of main's segment and of the first resumed segment
C26_Witness ==
    /\ pc = "exec_run"
    /\ runState = "done"
    /\ Cardinality(resolved) = 2
    /\ Len(dummy_events) > 1
    /\ Len(events) > Len(dummy_events) + 4

\* the steps that write generated_plan, and the value their latest text
\* output in a list of events leaves under that key
PlanWriters == {"lesson_plan_generator_agent", "lesson_plan_refiner_agent"}

PlanOutputs(evs) ==
    {i \in 1..Len(evs) : evs[i].author \in PlanWriters /\ evs[i].parts[1].kind = "text"}

LatestPlan(evs) ==
    IF PlanOutputs(evs) = {} THEN NoValue
    ELSE [set |-> TRUE,
          text |-> evs[CHOOSE i \in PlanOutputs(evs) :
                          \A j \in PlanOutputs(evs) : j <= i].parts[1].text]

\* C27: in the lesson pipeline generated_plan holds, at every point and in the
\* state given to the step taking a turn, the text of whichever of the
\* generator and the refiner produced text most recently; a turn of the
\* refiner in which it only calls its exit tool leaves the plan as it was.
C27_LatestPlanWins ==
    [][pipeline = "lesson"
       => /\ state'["generated_plan"] = LatestPlan(events')
          /\ seen'.state["generated_plan"] = LatestPlan(SubSeq(events', 1, seen'.at))
          /\ (seen'.agent = "lesson_plan_refiner_agent" /\ seen'.at = Len(events)
              /\ PlanOutputs(events') = PlanOutputs(events))
             => state'["generated_plan"] = state["generated_plan"]]_vars

\* the refiner wrote a plan over the generator's in the first iteration and
\* only called exit_inner_loop in the second; human_feedback_agent, next in
\* turn, was given the refiner's plan
C27_Witness ==
    /\ pipeline = "lesson"
    /\ seen.agent = "human_feedback_agent"
    /\ ctx.runs["human_feedback_agent"] = 2
    /\ seen.state["generated_plan"] = [set |-> TRUE, text |-> FencedPlan]
    /\ events[1].parts[1].text = BarePlan
    /\ \E i \in 1..seen.at :
          /\ events[i].author = "lesson_plan_refiner_agent"
          /\ events[i].parts[1].kind = "function_call"
          /\ PlanOutputs(SubSeq(events, 1, i)) = PlanOutputs(SubSeq(events, 1, seen.at))
          /\ Cardinality(PlanOutputs(SubSeq(events, 1, i))) = 2

\* the confirmation requests in a list of events
Requested(evs) ==
    {evs[i].parts[1].id : i \in {j \in 1..Len(evs) : IsConfirmationCall(evs[j].parts[1])}}

\* C28: the request the human is prompted for is one not yet answered, and
\* the one the segment that just ended emitted; an answer resolves a request
\* that was not resolved before, so the prompts are as many as the requests;
\* and a resumed segment without a request ends ai_executor.
C28_AnsweredNotPendingAgain ==
    [][/\ pc' \in Prompts
          => /\ approval_info'.found
             /\ approval_info'.approval_id \notin resolved'
             /\ pending' = {p \in pending' : p.call_id = approval_info'.approval_id}
       /\ Cardinality(resolved') + Cardinality(pending') = rounds'
       /\ (pc = "exec_run" /\ pc' # pc)
          => IF Requested(dummy_events) = {}
             THEN pc' = "main_extract"
             ELSE /\ pc' = "exec_prompt"
                  /\ Requested(dummy_events) = {approval_info'.approval_id}
       /\ (pc = "exec_enter" /\ pc' = "exec_run")
          => /\ approval_info.approval_id \notin resolved
             /\ resolved' = resolved \cup {approval_info.approval_id}
             /\ Requested(dummy_events') = {}]_vars

\* the second request has been answered and the segment resumed by the answer
\* has ended without a request, with both requests still in the list events
C28_Witness ==
    /\ pc = "main_extract"
    /\ Cardinality(resolved) = 2
    /\ Requested(events) = resolved
    /\ runState = "done"
    /\ answer = NoAnswer
    /\ stray = NONE


(***************************************************************************)
(* The result cache of main.                                               *)
(***************************************************************************)
\* the concepts of the plan main selects from
Concepts == {final_output.items[i] : i \in 1..Len(final_output.items)}

\* content_map holds a non-empty artifact for the concept
HasArtifact(concept) ==
    /\ concept \in DOMAIN content_map
    /\ content_map[concept].type = "array"
    /\ content_map[concept].items # <<>>

\* the step is a selection of the concept, made at the head of main's loop
Selects(concept) == pc = "main_done" /\ concept_tobe_used' = concept

\* C29: a concept whose run of the content pipeline left a non-empty
\* artifact in content_map is never run again and its artifact stays what it
\* is, a selection of it prints that artifact and returns to the selection;
\* a selection of a concept without a non-empty artifact, one never run or
\* one whose run returned an empty artifact, goes to content_generator, whose
\* run is counted once and whose result is what content_map then holds.
C29_ResultCache ==
    [][\A concept \in Concepts :
          /\ HasArtifact(concept)
                => /\ Runs(generated', concept) = Runs(generated, concept)
                   /\ Get(content_map', concept, PyNone) = Get(content_map, concept, PyNone)
                   /\ Selects(concept)
                         => pc' = "main_done" /\ shown' = content_map[concept]
          /\ ~HasArtifact(concept) /\ Selects(concept)
                => /\ pc' = "generate"
                   /\ content_map' = content_map
                   /\ generated' = generated
          /\ pc = "generate" /\ concept_tobe_used = concept
                => /\ ~HasArtifact(concept)
                   /\ Runs(generated', concept) = Runs(generated, concept) + 1
                   /\ pc' = "main_done"
                         => \E evs \in ContentRuns :
                               content_map'[concept] = content_generator(evs).final_output
          /\ Runs(generated', concept) # Runs(generated, concept)
                => pc = "generate" /\ concept_tobe_used = concept]_vars

\* one concept was run once, left a non-empty artifact and had it printed
\* at a later selection; another was run, left an empty artifact and was run
\* again at its next selection
C29_Witness ==
    /\ pc = "main_done"
    /\ \E concept \in Concepts :
          /\ concept_tobe_used = concept
          /\ HasArtifact(concept)
          /\ Runs(generated, concept) = 1
          /\ shown = content_map[concept]
    /\ \E other \in Concepts :
          /\ other \in DOMAIN content_map
          /\ ~HasArtifact(other)
          /\ Runs(generated, other) = 2

====
